---- MODULE Spec2Model ----
(***************************************************************************)
(* A model of the dataset path layer (faculty/datasets/__init__.py) and of *)
(* the experiment-run listing client (faculty/clients/experiment.py).      *)
(*                                                                         *)
(* One caller invokes one operation at a time (the library is synchronous  *)
(* and sequential); every call on the object store or on the HTTP          *)
(* transport is one step, so that the order and the number of the calls an *)
(* operation makes are visible.  Paths are sequences of one-character      *)
(* strings, so that split, startswith and endswith are computed and not    *)
(* assumed.                                                                *)
(***************************************************************************)
EXTENDS Integers, Sequences, FiniteSets, TLC

VARIABLES
    store,          \* the object store: the set of keys of one project
    pc,             \* where the running operation stands ("idle": none)
    op,             \* the operation the caller invoked
    args,           \* its arguments
    result,         \* its return value, once pc = "done"
    err,            \* the exception it raised, None if it returned
    pages,          \* the chain of pages the store serves for the drain under way
    list_response,  \* ls: the last response of client.list
    paths,          \* ls: the paths accumulated so far
    lsArgs,         \* ls: prefix and show_hidden of the running ls
    lsRet,          \* ls: where control goes when ls returns
    lsOut,          \* ls: its return value
    calls,          \* the object-store calls issued by the running operation
    responses,      \* the list responses the store gave to the drain under way, in order
    gets,           \* the GET requests issued on the HTTP transport
    body,           \* the JSON body last handed to a schema
    store0,         \* the store as it was when the operation was invoked
    all_objects,    \* _create_parent_directories: the root listing, as a set
    dirs,           \* _create_parent_directories: the parent directories still to visit
    stack,          \* _put_recursive: the (local path, project path) pairs still to put
    fs,             \* the local filesystem: the directories and the files that exist
    fs0,            \* the local filesystem as it was when the operation was invoked
    getArgs,        \* get: project_path and local_path of the running get
    getRet,         \* get: where control goes when get returns
    paths_to_get,   \* _get_directory: the listed paths still to fetch
    tmpdir,         \* open: the temporary directory, once made
    failed,         \* the positions in `calls` of the store calls that failed
    via,            \* the client each call in `calls` was issued through
    last            \* the outcome of the _isdir call before this one, if any

vars == <<store, pc, op, args, result, err, pages, list_response, paths,
          lsArgs, lsRet, lsOut, calls, responses, gets, body,
          store0, all_objects, dirs, stack,
          fs, fs0, getArgs, getRet, paths_to_get, tmpdir, failed, via, last>>

lsVars == <<pages, list_response, paths, lsArgs, lsRet, lsOut>>
httpVars == <<gets, body>>
putVars == <<store0, all_objects, dirs, stack>>
localVars == <<fs, fs0, getArgs, getRet, paths_to_get, tmpdir, failed>>

----------------------------------------------------------------------------
(* Bounds of the model.                                                    *)

MaxPages == 3      \* pages in one listing chain
MaxPageLen == 3    \* objects on one page
\* The store calls one operation may issue before the model stops it: three
\* drains at most, and two calls more.
MaxCalls == 3 * MaxPages + 2

----------------------------------------------------------------------------
(* Optional values: Python's None and a present value.                     *)

None == <<>>
Some(x) == <<x>>
Val(o) == o[1]

\* The local filesystem while no operation looks at it.
NoFilesystem == [dirs |-> {}, files |-> {}]

----------------------------------------------------------------------------
(* Paths and keys.                                                         *)

Slash == "/"
Dot == "."

Root == <<"/">>
KeyDotH == <<"/", ".", "h">>               \* /.h
KeyD == <<"/", "d", "/">>                  \* /d/
KeyDX == <<"/", "d", "/", "x">>            \* /d/x
KeyDDotH == <<"/", "d", "/", ".", "h">>    \* /d/.h
KeyDotPX == <<"/", ".", "p", "/", "x">>    \* /.p/x
KeyDS == <<"/", "d", "/", "s", "/">>       \* /d/s/
KeyDSY == <<"/", "d", "/", "s", "/", "y">> \* /d/s/y
PrefD == <<"/", "d">>                      \* /d
PrefDotP == <<"/", ".", "p", "/">>         \* /.p/

PrefData == <<"/", "d", "a", "t", "a", "/">>          \* /data/
KeyDataA == PrefData \o <<"a", ".", "c", "s", "v">>   \* /data/a.csv
KeyDataB == PrefData \o <<"b", ".", "t", "x", "t">>   \* /data/b.txt
KeyDataH == PrefData \o <<".", "h", "i", "d", "d", "e", "n", ".", "c", "s", "v">>
                                                      \* /data/.hidden.csv

\* The order in which the store lists its keys (not sorted).
KeyOrder == <<KeyDX, KeyDSY, KeyDotPX, KeyD, KeyDotH, KeyDS, KeyDDotH,
              KeyDataA, KeyDataB, KeyDataH>>
\* The keys a store may hold before the first operation.
Keys == {KeyDX, KeyDotPX, KeyD, KeyDotH, KeyDDotH}
\* A store that holds three data files and nothing else.
DataListing == {KeyDataA, KeyDataB, KeyDataH}
\* The stores an execution may start from.
Stores == SUBSET Keys \cup {DataListing}
Prefixes == {Root, KeyD, PrefD, PrefDotP}

startswith(s, p) ==
    /\ Len(p) <= Len(s)
    /\ \A i \in 1..Len(p) : s[i] = p[i]

endswith(s, p) ==
    /\ Len(p) <= Len(s)
    /\ \A i \in 1..Len(p) : s[Len(s) - Len(p) + i] = p[i]

RECURSIVE SplitAcc(_, _, _)
SplitAcc(s, cur, acc) ==
    IF s = <<>> THEN Append(acc, cur)
    ELSE IF Head(s) = Slash
         THEN SplitAcc(Tail(s), <<>>, Append(acc, cur))
         ELSE SplitAcc(Tail(s), Append(cur, Head(s)), acc)

\* str.split("/")
split(s) == SplitAcc(s, <<>>, <<>>)

RECURSIVE Flatten(_)
Flatten(ss) == IF ss = <<>> THEN <<>> ELSE Head(ss) \o Flatten(Tail(ss))

RECURSIVE SumSeq(_)
SumSeq(ns) == IF ns = <<>> THEN 0 ELSE Head(ns) + SumSeq(Tail(ns))

----------------------------------------------------------------------------
(* The object store's list endpoint, as the client sees it: the keys with  *)
(* the prefix, in the store's order, served as a chain of pages.           *)

Matching(keys, prefix) ==
    SelectSeq(KeyOrder, LAMBDA k : k \in keys /\ startswith(k, prefix))

RECURSIVE Cut(_, _)
Cut(seq, sizes) ==
    IF sizes = <<>> THEN <<>>
    ELSE <<SubSeq(seq, 1, Head(sizes))>>
         \o Cut(SubSeq(seq, Head(sizes) + 1, Len(seq)), Tail(sizes))

PageSizes(n) ==
    {sz \in UNION {[1..k -> 0..MaxPageLen] : k \in 1..MaxPages} : SumSeq(sz) = n}

Chains(seq) == {Cut(seq, sz) : sz \in PageSizes(Len(seq))}

\* The response to list(prefix, token): page `token` of the chain (the first
\* page without a token), with the token of the page after it, if any.
Serve(chain, token) ==
    LET i == IF token = None THEN 1 ELSE Val(token)
    IN  [objects |-> chain[i],
         next_page_token |-> IF i < Len(chain) THEN Some(i + 1) ELSE None]

ListCall(prefix, token) == [fn |-> "list", prefix |-> prefix, token |-> token]

----------------------------------------------------------------------------
(* The clients of the object store: the one a caller hands to an           *)
(* operation, and the ones the module makes with ObjectClient(get_session()).*)

Supplied == "supplied"
ObjectClient == "ObjectClient"
Clients == {None, Some(Supplied)}

\* client = client or ObjectClient(get_session())
ClientOr(client) == IF client # None THEN Val(client) ELSE ObjectClient

\* The client the call about to be made is issued through: ls uses the one
\* it was given, or makes one; every other function makes its own, whatever
\* it was given (get hands its own down to _get_file).
PendingClient ==
    CASE pc \in {"ls_first", "ls_loop"} -> ClientOr(lsArgs.client)
      [] pc \in {"copy", "delete", "etag_get", "download"} -> ObjectClient
      [] pc \in {"cpd_loop", "put_recursive"} -> ObjectClient

----------------------------------------------------------------------------
(* ls                                                                      *)

\* Mutant: the new page replaces the paths gathered so far (= for +=).
AccumulateReplaces(acc, objects) == objects

\* paths += [obj.path for obj in list_response.objects]
Accumulate(acc, objects) == acc \o objects

\* Mutant: the follow-up call carries no token.
FollowUpTokenOmitted(resp) == None

\* The token a follow-up list call carries.
FollowUpToken(resp) == resp.next_page_token

\* Mutant: only the last element of the path is looked at.
HasHiddenBasename(path) ==
    startswith(split(path)[Len(split(path))], <<Dot>>)

\* any(element.startswith(".") for element in path.split("/"))
HasHiddenElement(path) ==
    \E i \in 1..Len(split(path)) : startswith(split(path)[i], <<Dot>>)

NonHiddenPaths(ps) == SelectSeq(ps, LAMBDA p : ~HasHiddenElement(p))

LsResult(ps, show_hidden) == IF show_hidden THEN ps ELSE NonHiddenPaths(ps)

\* The caller invokes ls(prefix, show_hidden=...).
CallLs ==
    /\ pc = "idle"
    /\ op' = "ls"
    /\ UNCHANGED last
    /\ \E prefix \in Prefixes, show_hidden \in BOOLEAN :
          /\ args' = [prefix |-> prefix, show_hidden |-> show_hidden]
          /\ lsArgs' = [prefix |-> prefix, show_hidden |-> show_hidden,
                        client |-> None]
    /\ lsRet' = "done"
    /\ pc' = "ls_first"
    /\ UNCHANGED <<localVars, store, result, err, pages, list_response, paths, lsOut,
                   calls, via, responses, httpVars, putVars>>

\* list_response = client.list(project_id, prefix); paths = [...]
LsListFirst ==
    /\ pc = "ls_first"
    /\ \E chain \in Chains(Matching(store, lsArgs.prefix)) :
          /\ pages' = chain
          /\ list_response' = Serve(chain, None)
    /\ via' = Append(via, PendingClient)
    /\ calls' = Append(calls, ListCall(lsArgs.prefix, None))
    /\ responses' = Append(responses, list_response')
    /\ paths' = list_response'.objects
    /\ pc' = "ls_loop"
    /\ UNCHANGED <<localVars, store, op, last, args, result, err, lsArgs, lsRet, lsOut, httpVars,
                   putVars>>

\* The body of: while list_response.next_page_token is not None
LsListNext ==
    /\ pc = "ls_loop"
    /\ list_response.next_page_token # None
    /\ Len(calls) < MaxCalls
    /\ list_response' = Serve(pages, FollowUpToken(list_response))
    /\ via' = Append(via, PendingClient)
    /\ calls' = Append(calls, ListCall(lsArgs.prefix, FollowUpToken(list_response)))
    /\ responses' = Append(responses, list_response')
    /\ paths' = Accumulate(paths, list_response'.objects)
    /\ UNCHANGED <<localVars, store, pc, op, last, args, result, err, pages, lsArgs, lsRet, lsOut,
                   httpVars, putVars>>

\* The loop ends; the hidden paths are filtered out unless show_hidden.
\* Returning into another function of the module ends the frame of ls: its
\* locals and the responses it was given are gone, its value stays.
LsReturn ==
    /\ pc = "ls_loop"
    /\ list_response.next_page_token = None
    /\ lsOut' = LsResult(paths, lsArgs.show_hidden)
    /\ pc' = lsRet
    /\ result' = IF lsRet = "done" THEN Some(lsOut') ELSE result
    /\ IF lsRet = "done"
       THEN UNCHANGED <<pages, list_response, paths, responses>>
       ELSE /\ pages' = <<>>
            /\ list_response' = None
            /\ paths' = <<>>
            /\ responses' = <<>>
    /\ UNCHANGED <<localVars, store, op, last, args, err, lsArgs, lsRet, calls, via,
                   httpVars, putVars>>

----------------------------------------------------------------------------
(* put and its helpers.  The local filesystem holds a file f and a         *)
(* directory D with a file x and a directory s, which holds a file y.      *)

LocalF == <<"f">>
LocalD == <<"D">>
LocalDX == <<"D", "/", "x">>
LocalDS == <<"D", "/", "s">>
LocalDSY == <<"D", "/", "s", "/", "y">>

LocalDirs == {LocalD, LocalDS}

\* os.path.isdir
isdir(local_path) == local_path \in LocalDirs

\* os.listdir: the entries of a directory; their order is not fixed.
listdir(local_path) ==
    IF local_path = LocalD THEN {<<"x">>, <<"s">>}
    ELSE IF local_path = LocalDS THEN {<<"y">>}
    ELSE {}

\* The orders in which the entries of a set may be listed.
Orders(S) ==
    {f \in [1..Cardinality(S) -> S] :
        \A i, j \in 1..Cardinality(S) : i # j => f[i] # f[j]}

\* os.path.join and posixpath.join, for a relative second part
join(a, b) == IF endswith(a, <<Slash>>) THEN a \o b ELSE a \o <<Slash>> \o b

\* path.project_parent_directories: root and every directory above the
\* path, outermost first, each with its trailing "/".
project_parent_directories(project_path) ==
    LET stem == IF endswith(project_path, <<Slash>>)
                THEN SubSeq(project_path, 1, Len(project_path) - 1)
                ELSE project_path
        cuts == SelectSeq([i \in 1..Len(stem) |-> i], LAMBDA i : stem[i] = Slash)
    IN  [n \in 1..Len(cuts) |-> SubSeq(stem, 1, cuts[n])]

\* The key of the marker the store keeps for a directory.
Marker(path) == IF endswith(path, <<Slash>>) THEN path ELSE path \o <<Slash>>

CreateDirectoryCall(path) == [fn |-> "create_directory", path |-> path]
UploadCall(project_path, local_path) ==
    [fn |-> "upload", path |-> project_path, local |-> local_path]

\* The (local_path, project_path) pairs the caller may pass.
PutArgs ==
    {[local_path |-> LocalF, project_path |-> KeyDSY],
     [local_path |-> LocalF, project_path |-> KeyDX],
     [local_path |-> LocalD, project_path |-> KeyD]}

\* put(local_path, project_path): the module defines no _s3_client, so the
\* call that line 222 makes raises NameError before the parent directories
\* are looked at and before anything is put.
CallPut ==
    /\ pc = "idle"
    /\ op' = "put"
    /\ UNCHANGED last
    /\ \E a \in PutArgs : args' = a
    /\ store0' = store
    /\ err' = Some("NameError")
    /\ pc' = "done"
    /\ UNCHANGED <<localVars, store, result, lsVars, calls, via, responses, httpVars,
                   all_objects, dirs, stack>>

\* _create_parent_directories(project_path, ...), called on its own: it
\* starts with ls("/", show_hidden=True).
CallCreateParentDirectories ==
    /\ pc = "idle"
    /\ op' = "_create_parent_directories"
    /\ UNCHANGED last
    /\ \E a \in PutArgs : args' = a
    /\ store0' = store
    /\ lsArgs' = [prefix |-> Root, show_hidden |-> TRUE, client |-> None]
    /\ lsRet' = "cpd_begin"
    /\ pc' = "ls_first"
    /\ UNCHANGED <<localVars, store, result, err, pages, list_response, paths, lsOut,
                   calls, via, responses, httpVars, all_objects, dirs, stack>>

\* all_objects = set(ls(...)); the loop over the parent directories starts.
CpdBegin ==
    /\ pc = "cpd_begin"
    /\ all_objects' = {lsOut[i] : i \in 1..Len(lsOut)}
    /\ dirs' = project_parent_directories(args.project_path)
    /\ pc' = "cpd_loop"
    /\ UNCHANGED <<localVars, store, op, last, args, result, err, lsVars, calls, via, responses,
                   httpVars, store0, stack>>

\* Whether the loop creates the marker of `dirname`.
MustCreate(dirname, listed) == dirname # Root /\ dirname \notin listed

\* One turn of the loop: root and the listed directories are passed over,
\* any other gets its marker created.
CpdStep ==
    /\ pc = "cpd_loop"
    /\ dirs # <<>>
    /\ IF MustCreate(Head(dirs), all_objects)
       THEN /\ calls' = Append(calls, CreateDirectoryCall(Head(dirs)))
            /\ via' = Append(via, PendingClient)
            /\ store' = store \cup {Marker(Head(dirs))}
       ELSE UNCHANGED <<calls, via, store>>
    /\ dirs' = Tail(dirs)
    /\ UNCHANGED <<localVars, pc, op, last, args, result, err, lsVars, responses, httpVars,
                   store0, all_objects, stack>>

CpdReturn ==
    /\ pc = "cpd_loop"
    /\ dirs = <<>>
    /\ pc' = "done"
    /\ UNCHANGED <<localVars, store, op, last, args, result, err, lsVars, calls, via, responses,
                   httpVars, putVars>>

\* _put_recursive(local_path, project_path, ...), called on its own.
CallPutRecursive ==
    /\ pc = "idle"
    /\ op' = "_put_recursive"
    /\ UNCHANGED last
    /\ \E a \in PutArgs :
          /\ args' = a
          /\ stack' = <<a>>
    /\ store0' = store
    /\ pc' = "put_recursive"
    /\ UNCHANGED <<localVars, store, result, err, lsVars, calls, via, responses, httpVars,
                   all_objects, dirs>>

\* _put_recursive on the next pair: a local directory gets its marker
\* created and its entries put next (_put_directory), anything else is
\* uploaded (_put_file).
PutRecursiveStep ==
    /\ pc = "put_recursive"
    /\ stack # <<>>
    /\ LET local_path == Head(stack).local_path
           project_path == Head(stack).project_path
       IN  IF isdir(local_path)
           THEN /\ calls' = Append(calls, CreateDirectoryCall(project_path))
                /\ store' = store \cup {Marker(project_path)}
                /\ \E entries \in Orders(listdir(local_path)) :
                      stack' = [i \in 1..Len(entries) |->
                                  [local_path |-> join(local_path, entries[i]),
                                   project_path |-> join(project_path, entries[i])]]
                               \o Tail(stack)
           ELSE /\ calls' = Append(calls, UploadCall(project_path, local_path))
                /\ store' = store \cup {project_path}
                /\ stack' = Tail(stack)
    /\ via' = Append(via, PendingClient)
    /\ UNCHANGED <<localVars, pc, op, last, args, result, err, lsVars, responses, httpVars,
                   store0, all_objects, dirs>>

PutRecursiveReturn ==
    /\ pc = "put_recursive"
    /\ stack = <<>>
    /\ pc' = "done"
    /\ UNCHANGED <<localVars, store, op, last, args, result, err, lsVars, calls, via, responses,
                   httpVars, putVars>>

----------------------------------------------------------------------------
(* The schemas of faculty/clients/experiment.py.  A JSON object is a       *)
(* function from the keys it holds to their values; a schema's load gives  *)
(* Valid(value) or Invalid (marshmallow's ValidationError).                *)

MaxInt == 1        \* integers in JSON bodies and in start/limit: 0..MaxInt

IntVals == 0..MaxInt

Invalid == [ok |-> FALSE]
Valid(v) == [ok |-> TRUE, value |-> v]
Has(obj, key) == key \in DOMAIN obj
Restrict(obj, keys) == [k \in keys |-> obj[k]]

\* Every object holding some of the keys of the records in `full`.
Parts(full, keys) == {Restrict(r, D) : r \in full, D \in SUBSET keys}

PageBodiesOf(ints) == Parts([start : ints, limit : ints], {"start", "limit"})

PaginationBodiesOf(ints) ==
    Parts([start : ints, size : ints,
           previous : PageBodiesOf(ints), next : PageBodiesOf(ints)],
          {"start", "size", "previous", "next"})

RunBodyFull ==
    [runId |-> "u1", experimentId |-> 1, artifactLocation |-> "s3",
     status |-> "finished", startedAt |-> "t1", endedAt |-> "t2",
     deletedAt |-> "t3"]
RunBodyOpen == Restrict(RunBodyFull,
    {"runId", "experimentId", "artifactLocation", "status", "startedAt"})
RunBodyNoId == Restrict(RunBodyFull,
    {"experimentId", "artifactLocation", "status", "startedAt"})
RunBodyBadStatus == [RunBodyOpen EXCEPT !.status = "bogus"]
RunBodies == {RunBodyFull, RunBodyOpen, RunBodyNoId, RunBodyBadStatus}

RunLists ==
    {<<>>, <<RunBodyFull>>, <<RunBodyOpen, RunBodyFull>>,
     <<RunBodyOpen, RunBodyNoId>>, <<RunBodyBadStatus>>}

ListBodiesOf(ints) ==
    Parts([pagination : PaginationBodiesOf(ints), runs : RunLists],
          {"pagination", "runs"})

\* ExperimentRunStatus, by value
StatusByValue ==
    [running |-> "RUNNING", finished |-> "FINISHED", failed |-> "FAILED",
     scheduled |-> "SCHEDULED"]

\* fields.UUID and fields.DateTime parse their text into a value of the type.
ParseUUID(text) == <<"UUID", text>>
ParseDateTime(text) == <<"datetime", text>>

\* fields.DateTime(missing=None): null when the key is omitted.
LoadOptionalDateTime(obj, key) ==
    IF Has(obj, key) THEN Some(ParseDateTime(obj[key])) ELSE None

\* ExperimentRunSchema().load
LoadExperimentRun(b) ==
    IF /\ {"runId", "experimentId", "artifactLocation", "status", "startedAt"}
              \subseteq DOMAIN b
       /\ b.status \in DOMAIN StatusByValue
    THEN Valid([id |-> ParseUUID(b.runId),
                experiment_id |-> b.experimentId,
                artifact_location |-> b.artifactLocation,
                status |-> StatusByValue[b.status],
                started_at |-> ParseDateTime(b.startedAt),
                ended_at |-> LoadOptionalDateTime(b, "endedAt"),
                deleted_at |-> LoadOptionalDateTime(b, "deletedAt")])
    ELSE Invalid

\* Mutant: a Page without its limit is accepted, the limit defaulting to 0.
LoadPageLenient(b) ==
    IF Has(b, "start")
    THEN Valid([start |-> b.start, limit |-> IF Has(b, "limit") THEN b.limit ELSE 0])
    ELSE Invalid

\* PageSchema().load
LoadPage(b) ==
    IF Has(b, "start") /\ Has(b, "limit")
    THEN Valid([start |-> b.start, limit |-> b.limit])
    ELSE Invalid

\* Mutant: an omitted page decodes to a default Page (missing=dict).
LoadNestedPageDefault(b, key) ==
    IF Has(b, key)
    THEN LET page == LoadPage(b[key])
         IN  IF page.ok THEN Valid(Some(page.value)) ELSE Invalid
    ELSE Valid(Some([start |-> 0, limit |-> 0]))

\* fields.Nested(PageSchema, missing=None)
LoadNestedPage(b, key) ==
    IF Has(b, key)
    THEN LET page == LoadPage(b[key])
         IN  IF page.ok THEN Valid(Some(page.value)) ELSE Invalid
    ELSE Valid(None)

\* PaginationSchema().load
LoadPagination(b) ==
    LET previous == LoadNestedPage(b, "previous")
        next == LoadNestedPage(b, "next")
    IN  IF Has(b, "start") /\ Has(b, "size") /\ previous.ok /\ next.ok
        THEN Valid([start |-> b.start, size |-> b.size,
                    previous |-> previous.value, next |-> next.value])
        ELSE Invalid

\* ListExperimentRunsResponseSchema().load
LoadListExperimentRunsResponse(b) ==
    IF Has(b, "pagination") /\ Has(b, "runs")
    THEN LET pagination == LoadPagination(b.pagination)
             runs == [i \in 1..Len(b.runs) |-> LoadExperimentRun(b.runs[i])]
         IN  IF pagination.ok /\ \A i \in 1..Len(runs) : runs[i].ok
             THEN Valid([runs |-> [i \in 1..Len(runs) |-> runs[i].value],
                         pagination |-> pagination.value])
             ELSE Invalid
    ELSE Invalid

Schemas == {"PageSchema", "PaginationSchema", "ListExperimentRunsResponseSchema"}

PageBodies == PageBodiesOf(IntVals)
PaginationBodies == PaginationBodiesOf(IntVals)
ListBodies == ListBodiesOf({0})

BodiesOf(schema) ==
    CASE schema = "PageSchema" -> PageBodies
      [] schema = "PaginationSchema" -> PaginationBodies
      [] schema = "ListExperimentRunsResponseSchema" -> ListBodies

Load(schema, b) ==
    CASE schema = "PageSchema" -> LoadPage(b)
      [] schema = "PaginationSchema" -> LoadPagination(b)
      [] schema = "ListExperimentRunsResponseSchema" ->
            LoadListExperimentRunsResponse(b)

\* The caller decodes a body: schema().load(b).
CallLoad ==
    /\ pc = "idle"
    /\ \E schema \in Schemas : \E b \in BodiesOf(schema) :
          LET loaded == Load(schema, b)
          IN  /\ args' = [schema |-> schema]
              /\ body' = Some(b)
              /\ result' = IF loaded.ok THEN Some(loaded.value) ELSE None
              /\ err' = IF loaded.ok THEN None ELSE Some("ValidationError")
    /\ op' = "load"
    /\ UNCHANGED last
    /\ pc' = "done"
    /\ UNCHANGED <<localVars, store, lsVars, calls, via, responses, gets, putVars>>

----------------------------------------------------------------------------
(* ExperimentClient.list_runs                                              *)

ExperimentIdLists == {<<>>, <<1>>, <<1, 2>>}
LifecycleStages == {"active"}

Option(S) == {None} \cup {Some(x) : x \in S}

\* Mutant: an empty list of ids is treated as no filter.
ListRunsGuardNoShortCircuit(experiment_ids, lifecycle_stage) ==
    IF lifecycle_stage # None THEN "raise" ELSE "get"

\* Mutant: the empty list is looked at before the lifecycle stage.
ListRunsGuardEmptyFirst(experiment_ids, lifecycle_stage) ==
    IF experiment_ids # None /\ Len(Val(experiment_ids)) = 0 THEN "empty"
    ELSE IF lifecycle_stage # None THEN "raise"
    ELSE "get"

\* What list_runs does before it builds the query.
ListRunsGuard(experiment_ids, lifecycle_stage) ==
    IF lifecycle_stage # None THEN "raise"
    ELSE IF experiment_ids # None /\ Len(Val(experiment_ids)) = 0 THEN "empty"
    ELSE "get"

\* The response list_runs makes up for an empty list of experiment ids.
EmptyListRunsResponse ==
    [runs |-> <<>>,
     pagination |-> [start |-> 0, size |-> 0, previous |-> None, next |-> None]]

ExperimentIdParams(experiment_ids) ==
    IF experiment_ids = None THEN <<>>
    ELSE [i \in 1..Len(Val(experiment_ids)) |->
             <<"experimentId", Val(experiment_ids)[i]>>]

\* Mutant: the value is tested for truth (if x:), so 0 is dropped.
OptionalParamTruthy(name, x) ==
    IF x # None /\ Val(x) # 0 THEN <<<<name, Val(x)>>>> ELSE <<>>

\* if x is not None: query_params.append((name, x))
OptionalParam(name, x) == IF x # None THEN <<<<name, Val(x)>>>> ELSE <<>>

QueryParams(experiment_ids, start, limit) ==
    ExperimentIdParams(experiment_ids)
    \o OptionalParam("start", start) \o OptionalParam("limit", limit)

GetRequest(params) ==
    [endpoint |-> "/project/{}/run",
     schema |-> "ListExperimentRunsResponseSchema", params |-> params]

\* The caller invokes list_runs; it raises, returns the empty response, or
\* sends its one GET.
CallListRuns ==
    /\ pc = "idle"
    /\ op' = "list_runs"
    /\ UNCHANGED last
    /\ \E experiment_ids \in Option(ExperimentIdLists),
          lifecycle_stage \in Option(LifecycleStages),
          start \in Option(IntVals), limit \in Option(IntVals) :
          LET step == ListRunsGuard(experiment_ids, lifecycle_stage)
          IN  /\ args' = [experiment_ids |-> experiment_ids,
                          lifecycle_stage |-> lifecycle_stage,
                          start |-> start, limit |-> limit]
              /\ pc' = IF step = "get" THEN "get" ELSE "done"
              /\ err' = IF step = "raise" THEN Some("NotImplementedError") ELSE None
              /\ result' = IF step = "empty" THEN Some(EmptyListRunsResponse) ELSE None
              /\ gets' = IF step = "get"
                         THEN Append(gets, GetRequest(QueryParams(experiment_ids,
                                                                  start, limit)))
                         ELSE gets
    /\ UNCHANGED <<localVars, store, lsVars, calls, via, responses, body, putVars>>

\* The bodies the server may answer the GET with.
TransportBodies == ListBodies

\* self._get returns: the body is decoded with the schema of the request; a
\* body the schema rejects raises, and list_runs lets the error through.
GetReturn ==
    /\ pc = "get"
    /\ \E b \in TransportBodies :
          LET loaded == Load(gets[Len(gets)].schema, b)
          IN  /\ body' = Some(b)
              /\ result' = IF loaded.ok THEN Some(loaded.value) ELSE None
              /\ err' = IF loaded.ok THEN None ELSE Some("ValidationError")
    /\ pc' = "done"
    /\ UNCHANGED <<localVars, store, op, last, args, lsVars, calls, via, responses, gets, putVars>>

----------------------------------------------------------------------------
(* glob: fnmatch.filter(ls(...), pattern).  fnmatch translates the pattern *)
(* into a regular expression, here a sequence of items, and keeps the      *)
(* names the whole of which the expression matches.  Character ranges      *)
(* ("a-z") are not modelled; no pattern of the model has one.              *)

PatCsv == <<"*", ".", "c", "s", "v">>                    \* *.csv
PatStar == <<"*">>                                       \* *
PatDQ == <<"/", "d", "/", "?">>                          \* /d/?
PatSet == <<"/", "d", "/", "[", "x", "s", "]", "*">>     \* /d/[xs]*
PatNeg == <<"/", "d", "/", "[", "!", ".", "]", "*">>     \* /d/[!.]*
PatStarX == <<"/", "*", "x">>                            \* /*x
PatOpen == <<"/", "d", "/", "[", "x">>                   \* /d/[x

Item(t, neg, cs) == [t |-> t, neg |-> neg, cs |-> cs]

\* The index of the "]" that closes the set opened before index i, 0 when
\* there is none: a "!" and then a "]" right at the start do not close it.
RECURSIVE SetScan(_, _)
SetScan(pat, j) ==
    IF j > Len(pat) THEN 0
    ELSE IF pat[j] = "]" THEN j
    ELSE SetScan(pat, j + 1)

SetEnd(pat, i) ==
    LET j1 == IF i <= Len(pat) /\ pat[i] = "!" THEN i + 1 ELSE i
        j2 == IF j1 <= Len(pat) /\ pat[j1] = "]" THEN j1 + 1 ELSE j1
    IN  SetScan(pat, j2)

\* fnmatch.translate, from index i on.
RECURSIVE translate(_, _)
translate(pat, i) ==
    IF i > Len(pat) THEN <<>>
    ELSE IF pat[i] = "*" THEN <<Item("star", FALSE, {})>> \o translate(pat, i + 1)
    ELSE IF pat[i] = "?" THEN <<Item("any", FALSE, {})>> \o translate(pat, i + 1)
    ELSE IF pat[i] = "[" /\ SetEnd(pat, i + 1) # 0
         THEN LET j == SetEnd(pat, i + 1)
                  neg == pat[i + 1] = "!"
                  first == IF neg THEN i + 2 ELSE i + 1
              IN  <<Item("set", neg, {pat[k] : k \in first..(j - 1)})>>
                  \o translate(pat, j + 1)
    ELSE <<Item("lit", FALSE, {pat[i]})>> \o translate(pat, i + 1)

\* Mutant: "*" stops at "/", as a shell's glob does.
StarMatchesWithinSegment(c) == c # Slash

\* The characters ".*" runs over: all of them (the expression is compiled
\* with DOTALL), "/" included.
StarMatches(c) == TRUE

\* One item that is not a star against one character.
ItemMatches(item, c) ==
    CASE item.t = "any" -> TRUE
      [] item.t = "lit" -> c \in item.cs
      [] item.t = "set" -> (c \in item.cs) # item.neg

\* re.match of the translated pattern against the whole of name.
RECURSIVE Match(_, _)
Match(items, name) ==
    IF items = <<>> THEN name = <<>>
    ELSE IF Head(items).t = "star"
         THEN \E k \in 0..Len(name) :
                 /\ \A i \in 1..k : StarMatches(name[i])
                 /\ Match(Tail(items), SubSeq(name, k + 1, Len(name)))
         ELSE /\ name # <<>>
              /\ ItemMatches(Head(items), Head(name))
              /\ Match(Tail(items), Tail(name))

\* fnmatch.filter(names, pat)
fnmatch_filter(names, pat) ==
    SelectSeq(names, LAMBDA name : Match(translate(pat, 1), name))

GlobArgs ==
    {[pattern |-> PatCsv, prefix |-> PrefData, show_hidden |-> FALSE],
     [pattern |-> PatCsv, prefix |-> PrefData, show_hidden |-> TRUE],
     [pattern |-> PatCsv, prefix |-> Root, show_hidden |-> TRUE],
     [pattern |-> PatStar, prefix |-> Root, show_hidden |-> FALSE],
     [pattern |-> PatDQ, prefix |-> KeyD, show_hidden |-> TRUE],
     [pattern |-> PatSet, prefix |-> PrefD, show_hidden |-> TRUE],
     [pattern |-> PatNeg, prefix |-> KeyD, show_hidden |-> TRUE],
     [pattern |-> PatStarX, prefix |-> Root, show_hidden |-> TRUE],
     [pattern |-> PatStarX, prefix |-> Root, show_hidden |-> FALSE],
     [pattern |-> PatOpen, prefix |-> Root, show_hidden |-> TRUE]}

\* The caller invokes glob(pattern, prefix, show_hidden): it calls
\* ls(prefix, show_hidden=show_hidden).
CallGlob ==
    /\ pc = "idle"
    /\ op' = "glob"
    /\ UNCHANGED last
    /\ \E a \in GlobArgs :
          /\ args' = a
          /\ lsArgs' = [prefix |-> a.prefix, show_hidden |-> a.show_hidden,
                        client |-> None]
    /\ store0' = store
    /\ lsRet' = "glob_filter"
    /\ pc' = "ls_first"
    /\ UNCHANGED <<store, result, err, pages, list_response, paths, lsOut,
                   calls, via, responses, httpVars, all_objects, dirs, stack,
                   localVars>>

\* return fnmatch.filter(contents, pattern)
GlobFilter ==
    /\ pc = "glob_filter"
    /\ result' = Some(fnmatch_filter(lsOut, args.pattern))
    /\ pc' = "done"
    /\ UNCHANGED <<store, op, last, args, err, lsVars, calls, via, responses, httpVars,
                   putVars, localVars>>

----------------------------------------------------------------------------
(* The local filesystem, as os.path and os see it.  A filesystem is the    *)
(* set of its directories and the set of its files, each path without a    *)
(* trailing "/".                                                           *)

Cwd == <<".">>
LocalO == <<"o">>                          \* o
LocalOSlash == <<"o", "/">>                \* o/
LocalNO == <<"n", "/", "o">>               \* n/o
LocalN == <<"n">>                          \* n

\* The index of the last "/" of a path, 0 when it has none (str.rfind + 1).
RECURSIVE rfind(_, _)
rfind(p, i) == IF i = 0 \/ p[i] = Slash THEN i ELSE rfind(p, i - 1)

\* str.rstrip("/")
RECURSIVE rstrip(_)
rstrip(p) ==
    IF p # <<>> /\ p[Len(p)] = Slash THEN rstrip(SubSeq(p, 1, Len(p) - 1)) ELSE p

\* posixpath.dirname: the head up to the last "/", its trailing slashes
\* stripped unless it is made of slashes only.
dirname(p) ==
    LET head == SubSeq(p, 1, rfind(p, Len(p)))
    IN  IF head # <<>> /\ rstrip(head) # <<>> THEN rstrip(head) ELSE head

\* posixpath.basename: what follows the last "/".
basename(p) == SubSeq(p, rfind(p, Len(p)) + 1, Len(p))

\* The name the filesystem resolves a path to.
Resolve(p) == IF rstrip(p) = <<>> THEN p ELSE rstrip(p)

\* os.path.isdir, os.path.isfile, os.path.exists on the filesystem f
fsisdir(f, p) == Resolve(p) \in f.dirs
fsisfile(f, p) == p \in f.files
fsexists(f, p) == fsisdir(f, p) \/ fsisfile(f, p)

\* The directories os.makedirs(p) makes sure of: p and those above it.
MadeDirs(p) ==
    {SubSeq(Resolve(p), 1, i - 1) :
        i \in {j \in 2..Len(Resolve(p)) : Resolve(p)[j] = Slash}}
    \cup {Resolve(p)}

\* os.makedirs
makedirs(f, p) == [f EXCEPT !.dirs = @ \cup MadeDirs(p)]

\* The local filesystems a get may meet: the working directory alone, or
\* with a directory n, or with a directory o.
FsCwd == [dirs |-> {Cwd}, files |-> {}]
FsCwdN == [dirs |-> {Cwd, LocalN}, files |-> {}]
FsCwdO == [dirs |-> {Cwd, LocalO}, files |-> {}]

----------------------------------------------------------------------------
(* What a raised exception does: open catches nothing but runs its finally *)
(* clause once the temporary directory is made; every other operation ends.*)

Raised == IF op = "open" /\ tmpdir # None THEN "open_finally" ELSE "done"

----------------------------------------------------------------------------
(* _isdir                                                                  *)

\* Mutant: the path is listed as it was given.
IsdirPrefixAsGiven(project_path) == project_path

\* if not project_path.endswith("/"): project_path += "/"
IsdirPrefix(project_path) ==
    IF endswith(project_path, <<Slash>>) THEN project_path
    ELSE project_path \o <<Slash>>

\* return len(matches) >= 1
IsdirResult(matches) == Len(matches) >= 1

KeyDXSlash == KeyDX \o <<Slash>>          \* /d/x/
RelDX == <<"d", "/", "x">>                \* d/x

\* The paths _isdir is asked about, each with and without its trailing "/".
IsdirPaths == {PrefD, KeyD, KeyDX, KeyDXSlash}

\* _isdir(project_path, client=...) is called: it lists the path as a
\* directory prefix, hidden paths included, through the client it was given.
CallIsdir ==
    /\ pc = "idle"
    /\ op' = "_isdir"
    /\ \E project_path \in IsdirPaths, client \in Clients :
          /\ args' = [project_path |-> project_path, client |-> client]
          /\ lsArgs' = [prefix |-> IsdirPrefix(project_path),
                        show_hidden |-> TRUE, client |-> client]
    /\ lsRet' = "isdir_return"
    /\ pc' = "ls_first"
    /\ UNCHANGED <<store, result, err, pages, list_response, paths, lsOut,
                   calls, via, responses, httpVars, putVars, localVars, last>>

\* matches = ls(...); return len(matches) >= 1
IsdirReturn ==
    /\ pc = "isdir_return"
    /\ result' = Some(IsdirResult(lsOut))
    /\ pc' = "done"
    /\ UNCHANGED <<store, op, last, args, err, lsVars, calls, via, responses,
                   httpVars, putVars, localVars>>

----------------------------------------------------------------------------
(* _isfile                                                                 *)

\* The path without its repeated "/".
RECURSIVE Collapse(_)
Collapse(p) ==
    IF Len(p) < 2 THEN p
    ELSE IF p[1] = Slash /\ p[2] = Slash THEN Collapse(Tail(p))
    ELSE <<Head(p)>> \o Collapse(Tail(p))

\* path.rationalise_projectpath: the path made absolute, with no repeated
\* "/", its trailing "/" kept.  ("." and ".." elements are not modelled.)
rationalise_projectpath(p) == Collapse(<<Slash>> \o p)

\* Mutant: any listed path counts as the file.
IsfileResultAnyMatch(matches, rationalised_path) == Len(matches) >= 1

\* return any(match == rationalised_path for match in matches)
IsfileResult(matches, rationalised_path) ==
    \E i \in 1..Len(matches) : matches[i] = rationalised_path

IsfilePaths == {PrefD, KeyD, KeyDX, KeyDotH, RelDX}

\* _isfile(project_path, client=...) is called: it starts with
\* _isdir(project_path, project_id), which is given no client.
CallIsfile ==
    /\ pc = "idle"
    /\ op' = "_isfile"
    /\ \E project_path \in IsfilePaths, client \in Clients :
          /\ args' = [project_path |-> project_path, client |-> client]
          /\ lsArgs' = [prefix |-> IsdirPrefix(project_path),
                        show_hidden |-> TRUE, client |-> None]
    /\ lsRet' = "isfile_isdir"
    /\ pc' = "ls_first"
    /\ UNCHANGED <<store, result, err, pages, list_response, paths, lsOut,
                   calls, via, responses, httpVars, putVars, localVars, last>>

\* if _isdir(...): return False; else matches = ls(project_path,
\* show_hidden=True, client=client)
IsfileIsdir ==
    /\ pc = "isfile_isdir"
    /\ IF IsdirResult(lsOut)
       THEN /\ result' = Some(FALSE)
            /\ pc' = "done"
            /\ UNCHANGED <<lsArgs, lsRet>>
       ELSE /\ lsArgs' = [prefix |-> args.project_path, show_hidden |-> TRUE,
                          client |-> args.client]
            /\ lsRet' = "isfile_return"
            /\ pc' = "ls_first"
            /\ UNCHANGED result
    /\ UNCHANGED <<store, op, last, args, err, pages, list_response, paths,
                   lsOut, calls, via, responses, httpVars, putVars, localVars>>

\* rationalised_path = path.rationalise_projectpath(project_path);
\* return any(match == rationalised_path for match in matches)
IsfileReturn ==
    /\ pc = "isfile_return"
    /\ result' = Some(IsfileResult(lsOut,
                                   rationalise_projectpath(args.project_path)))
    /\ pc' = "done"
    /\ UNCHANGED <<store, op, last, args, err, lsVars, calls, via, responses,
                   httpVars, putVars, localVars>>

----------------------------------------------------------------------------
(* get and its helpers                                                     *)

DownloadCall(project_path, local_path) ==
    [fn |-> "download", path |-> project_path, local |-> local_path]

\* path.project_relative_path: the path of an object below the directory
\* `project_root`, without a trailing "/".
project_relative_path(project_root, object_path) ==
    rstrip(SubSeq(object_path, Len(IsdirPrefix(project_root)) + 1,
                  Len(object_path)))

\* Mutant: a destination that names a directory is accepted.
GetFileRejectsNever(local_path) == FALSE

\* _get_file: if local_path.endswith("/"): raise DatasetsError
GetFileRejects(local_path) == endswith(local_path, <<Slash>>)

\* Mutant: the containing directory is not looked for.
ContainingDirMissingIgnored(f, local_path) == FALSE

\* _get_directory: containing_dir = os.path.dirname(local_path), "." when
\* that is empty; raise IOError unless it is a directory.
ContainingDirMissing(f, local_path) ==
    LET containing_dir == IF dirname(local_path) = <<>> THEN Cwd
                          ELSE dirname(local_path)
    IN  ~fsisdir(f, containing_dir)

GetCall(project_path, local_path, f) ==
    [project_path |-> project_path, local_path |-> local_path, fs |-> f]

\* The calls of get the caller may make, each with the local filesystem
\* it is made on.
GetArgs ==
    {GetCall(PrefD, LocalO, FsCwd), GetCall(KeyD, LocalO, FsCwd),
     GetCall(PrefD, LocalNO, FsCwd), GetCall(KeyD, LocalNO, FsCwdN),
     GetCall(KeyD, LocalOSlash, FsCwd), GetCall(KeyD, LocalOSlash, FsCwdO),
     GetCall(KeyDX, LocalO, FsCwd), GetCall(KeyDX, LocalOSlash, FsCwd),
     GetCall(KeyDX, LocalNO, FsCwd), GetCall(KeyDotH, LocalO, FsCwd),
     GetCall(KeyDotH, LocalOSlash, FsCwdO)}

\* The caller invokes get(project_path, local_path); it starts with
\* _isdir(project_path, ...), which lists the path as a directory prefix.
CallGet ==
    /\ pc = "idle"
    /\ op' = "get"
    /\ UNCHANGED last
    /\ \E a \in GetArgs :
          /\ args' = [project_path |-> a.project_path, local_path |-> a.local_path]
          /\ getArgs' = [project_path |-> a.project_path,
                         local_path |-> a.local_path]
          /\ lsArgs' = [prefix |-> IsdirPrefix(a.project_path),
                        show_hidden |-> TRUE,
                        client |-> Some(ObjectClient)]
          /\ fs' = a.fs
          /\ fs0' = a.fs
    /\ store0' = store
    /\ getRet' = "done"
    /\ lsRet' = "get_isdir"
    /\ pc' = "ls_first"
    /\ UNCHANGED <<store, result, err, pages, list_response, paths, lsOut,
                   calls, via, responses, httpVars, all_objects, dirs, stack,
                   paths_to_get, tmpdir, failed>>

\* _isdir has returned.  A directory: _get_directory looks for the
\* containing directory and lists project_path.  Anything else: _get_file
\* looks at local_path and downloads.
GetIsdir ==
    /\ pc = "get_isdir"
    /\ IF IsdirResult(lsOut)
       THEN IF ContainingDirMissing(fs, getArgs.local_path)
            THEN /\ err' = Some("IOError")
                 /\ pc' = Raised
                 /\ UNCHANGED <<lsArgs, lsRet>>
            ELSE /\ lsArgs' = [prefix |-> getArgs.project_path,
                               show_hidden |-> TRUE,
                               client |-> Some(ObjectClient)]
                 /\ lsRet' = "get_listed"
                 /\ pc' = "ls_first"
                 /\ UNCHANGED err
       ELSE IF GetFileRejects(getArgs.local_path)
            THEN /\ err' = Some("DatasetsError")
                 /\ pc' = Raised
                 /\ UNCHANGED <<lsArgs, lsRet>>
            ELSE /\ pc' = "download"
                 /\ UNCHANGED <<err, lsArgs, lsRet>>
    /\ UNCHANGED <<store, op, last, args, result, pages, list_response, paths, lsOut,
                   calls, via, responses, httpVars, putVars, fs, fs0, getArgs,
                   getRet, paths_to_get, tmpdir, failed>>

\* paths_to_get = ls(project_path, show_hidden=True, ...)
GetListed ==
    /\ pc = "get_listed"
    /\ paths_to_get' = lsOut
    /\ pc' = "get_loop"
    /\ UNCHANGED <<store, op, last, args, result, err, lsVars, calls, via, responses,
                   httpVars, putVars, fs, fs0, getArgs, getRet, tmpdir, failed>>

\* os.path.join(local_path, path.project_relative_path(project_path, object_path))
LocalDest(local_path, project_path, object_path) ==
    join(local_path, project_relative_path(project_path, object_path))

\* The filesystem after the local part of one turn of the loop: the entry's
\* directory (an entry ending in "/") or the directory of its file is made
\* unless it exists.
GetDirectoryLocal(f, local_dest, object_path) ==
    LET made == IF endswith(object_path, <<Slash>>) THEN local_dest
                ELSE dirname(local_dest)
    IN  IF fsexists(f, made) THEN f ELSE makedirs(f, made)

\* One turn of the loop of _get_directory.  For a file the code calls
\* _get_file(object_path, local_dest, project_id): three arguments for a
\* function of four, a TypeError raised before anything is downloaded.
GetDirectoryStep ==
    /\ pc = "get_loop"
    /\ paths_to_get # <<>>
    /\ LET object_path == Head(paths_to_get)
           local_dest == LocalDest(getArgs.local_path, getArgs.project_path,
                                   object_path)
       IN  /\ fs' = GetDirectoryLocal(fs, local_dest, object_path)
           /\ IF endswith(object_path, <<Slash>>)
              THEN /\ paths_to_get' = Tail(paths_to_get)
                   /\ UNCHANGED <<pc, err>>
              ELSE /\ err' = Some("TypeError")
                   /\ pc' = Raised
                   /\ UNCHANGED paths_to_get
    /\ UNCHANGED <<store, op, last, args, result, lsVars, calls, via, responses, httpVars,
                   putVars, fs0, getArgs, getRet, tmpdir, failed>>

GetDirectoryReturn ==
    /\ pc = "get_loop"
    /\ paths_to_get = <<>>
    /\ pc' = getRet
    /\ UNCHANGED <<store, op, last, args, result, err, lsVars, calls, via, responses,
                   httpVars, putVars, localVars>>

----------------------------------------------------------------------------
(* cp, rm, rmdir, mv and etag: each hands its arguments to one call of the *)
(* object store's client (mv to two).  The recursive flag is written as    *)
(* the text of the Python value passed.                                    *)

ContextProject == "ctx"
ProjectIds == {None, Some("p")}

\* project_id = project_id or get_context().project_id
ProjectOf(project_id) ==
    IF project_id # None THEN Val(project_id) ELSE ContextProject

CopyCall(project, source, destination, recursive) ==
    [fn |-> "copy", project |-> project, path |-> source,
     destination |-> destination, recursive |-> recursive]
DeleteCall(project, path, recursive) ==
    [fn |-> "delete", project |-> project, path |-> path,
     recursive |-> recursive]
GetObjectCall(project, path) ==
    [fn |-> "get", project |-> project, path |-> path]

\* How the store may read the recursive flag it is sent: True and
\* False/None as they are, any other value either way.
RecursiveReadings(recursive) ==
    CASE recursive = "True" -> {TRUE}
      [] recursive \in {"None", "False"} -> {FALSE}
      [] OTHER -> BOOLEAN

\* The keys a copy or a delete of `path` acts on.
Selected(keys, path, recursive) ==
    IF recursive THEN {k \in keys : startswith(k, path)} ELSE {path} \cap keys

\* The keys a copy writes.
Copied(keys, source, destination, recursive) ==
    {destination \o SubSeq(k, Len(source) + 1, Len(k)) :
        k \in Selected(keys, source, recursive)}

\* The parameters cp receives from mv: cp(source_path, destination_path,
\* project_id, client), the client landing in the fourth parameter of cp.
MvCpParams(a) ==
    [source_path |-> a.source_path, destination_path |-> a.destination_path,
     project_id |-> Some(ProjectOf(a.project_id)), recursive |-> "ObjectClient",
     client |-> None]

\* The parameters rm receives from mv: rm(source_path, project_id, client),
\* the client landing in the third parameter of rm.
MvRmParams(a) ==
    [project_path |-> a.source_path,
     project_id |-> Some(ProjectOf(a.project_id)), recursive |-> "ObjectClient",
     client |-> None]

\* Mutant: rmdir leaves the recursive flag out.
RmdirRmParamsNotRecursive(a) ==
    [project_path |-> a.project_path, project_id |-> a.project_id,
     recursive |-> "None", client |-> a.client]

\* The parameters rm receives from rmdir:
\* rm(project_path, project_id=project_id, recursive=True, client=client)
RmdirRmParams(a) ==
    [project_path |-> a.project_path, project_id |-> a.project_id,
     recursive |-> "True", client |-> a.client]

\* The parameters of the running cp and of the running rm.
CpParams == IF op = "mv" THEN MvCpParams(args) ELSE args
RmParams ==
    IF op = "mv" THEN MvRmParams(args)
    ELSE IF op = "rmdir" THEN RmdirRmParams(args)
    ELSE args

\* Mutant: mv removes the source before it copies it.
MvStepsRmFirst == <<"delete", "copy">>

\* mv: cp(...) and then rm(...)
MvSteps == <<"copy", "delete">>

\* Where control goes when cp or rm returns.
AfterStep(step) ==
    IF op = "mv" /\ step = MvSteps[1] THEN MvSteps[2] ELSE "done"

CpArgs ==
    {[source_path |-> KeyDX, destination_path |-> KeyDSY,
      project_id |-> None, recursive |-> "None"],
     [source_path |-> KeyDotH, destination_path |-> KeyDX,
      project_id |-> Some("p"), recursive |-> "False"],
     [source_path |-> PrefDotP, destination_path |-> KeyD,
      project_id |-> None, recursive |-> "True"],
     [source_path |-> PrefDotP, destination_path |-> KeyD,
      project_id |-> Some("p"), recursive |-> "None"]}

RmArgs ==
    {[project_path |-> KeyDX, project_id |-> None, recursive |-> "None"],
     [project_path |-> KeyD, project_id |-> Some("p"), recursive |-> "True"],
     [project_path |-> KeyD, project_id |-> None, recursive |-> "None"],
     [project_path |-> KeyDotH, project_id |-> Some("p"), recursive |-> "False"]}

RmdirPaths == {KeyD, PrefDotP, KeyDX}

MvArgs ==
    {[source_path |-> KeyDX, destination_path |-> KeyDSY, project_id |-> None],
     [source_path |-> KeyDotH, destination_path |-> KeyDX,
      project_id |-> Some("p")],
     [source_path |-> PrefDotP, destination_path |-> KeyD, project_id |-> None]}

EtagPaths == {KeyDX, KeyDotH, KeyD}

\* The call the running operation is about to make on the store's client.
PendingCall ==
    CASE pc = "copy" ->
            CopyCall(ProjectOf(CpParams.project_id), CpParams.source_path,
                     CpParams.destination_path, CpParams.recursive)
      [] pc = "delete" ->
            DeleteCall(ProjectOf(RmParams.project_id), RmParams.project_path,
                       RmParams.recursive)
      [] pc = "etag_get" ->
            GetObjectCall(ProjectOf(args.project_id), args.project_path)
      [] pc = "download" ->
            DownloadCall(getArgs.project_path, getArgs.local_path)

\* The caller invokes cp(source_path, destination_path, project_id, recursive,
\* client).
CallCp ==
    /\ pc = "idle"
    /\ op' = "cp"
    /\ UNCHANGED last
    /\ \E a \in CpArgs, client \in Clients : args' = a @@ [client |-> client]
    /\ store0' = store
    /\ pc' = "copy"
    /\ UNCHANGED <<store, result, err, lsVars, calls, via, responses, httpVars,
                   all_objects, dirs, stack, localVars>>

\* The caller invokes rm(project_path, project_id, recursive, client).
CallRm ==
    /\ pc = "idle"
    /\ op' = "rm"
    /\ UNCHANGED last
    /\ \E a \in RmArgs, client \in Clients : args' = a @@ [client |-> client]
    /\ store0' = store
    /\ pc' = "delete"
    /\ UNCHANGED <<store, result, err, lsVars, calls, via, responses, httpVars,
                   all_objects, dirs, stack, localVars>>

\* The caller invokes rmdir(project_path, project_id, client): it calls rm.
CallRmdir ==
    /\ pc = "idle"
    /\ op' = "rmdir"
    /\ UNCHANGED last
    /\ \E project_path \in RmdirPaths, project_id \in ProjectIds,
          client \in Clients :
          args' = [project_path |-> project_path, project_id |-> project_id,
                   client |-> client]
    /\ store0' = store
    /\ pc' = "delete"
    /\ UNCHANGED <<store, result, err, lsVars, calls, via, responses, httpVars,
                   all_objects, dirs, stack, localVars>>

\* The caller invokes mv(source_path, destination_path, project_id, client).
CallMv ==
    /\ pc = "idle"
    /\ op' = "mv"
    /\ UNCHANGED last
    /\ \E a \in MvArgs, client \in Clients : args' = a @@ [client |-> client]
    /\ store0' = store
    /\ pc' = MvSteps[1]
    /\ UNCHANGED <<store, result, err, lsVars, calls, via, responses, httpVars,
                   all_objects, dirs, stack, localVars>>

\* cp: client.copy(project_id, source_path, destination_path,
\* recursive=recursive).  The store copies what the source selects, or
\* fails when it selects nothing.
Copy ==
    /\ pc = "copy"
    /\ via' = Append(via, PendingClient)
    /\ calls' = Append(calls, PendingCall)
    /\ \E recursive \in RecursiveReadings(CpParams.recursive) :
          IF Selected(store, CpParams.source_path, recursive) # {}
          THEN /\ store' = store \cup Copied(store, CpParams.source_path,
                                            CpParams.destination_path, recursive)
               /\ pc' = AfterStep("copy")
               /\ UNCHANGED <<err, failed>>
          ELSE /\ err' = Some("StoreError")
               /\ failed' = Append(failed, Len(calls) + 1)
               /\ pc' = Raised
               /\ UNCHANGED store
    /\ UNCHANGED <<op, last, args, result, lsVars, responses, httpVars, putVars,
                   fs, fs0, getArgs, getRet, paths_to_get, tmpdir>>

\* rm: client.delete(project_id, project_path, recursive=recursive).  The
\* store deletes what the path selects, or fails when it selects nothing.
Delete ==
    /\ pc = "delete"
    /\ via' = Append(via, PendingClient)
    /\ calls' = Append(calls, PendingCall)
    /\ \E recursive \in RecursiveReadings(RmParams.recursive) :
          IF Selected(store, RmParams.project_path, recursive) # {}
          THEN /\ store' = store \ Selected(store, RmParams.project_path,
                                            recursive)
               /\ pc' = AfterStep("delete")
               /\ UNCHANGED <<err, failed>>
          ELSE /\ err' = Some("StoreError")
               /\ failed' = Append(failed, Len(calls) + 1)
               /\ pc' = Raised
               /\ UNCHANGED store
    /\ UNCHANGED <<op, last, args, result, lsVars, responses, httpVars, putVars,
                   fs, fs0, getArgs, getRet, paths_to_get, tmpdir>>

Quote == "\""

\* The version tag the store reports for an object, in quotes.
ETagOf(path) == <<Quote>> \o path \o <<Quote>>

\* str.strip('"')
RECURSIVE lstripQuote(_)
lstripQuote(s) ==
    IF s # <<>> /\ Head(s) = Quote THEN lstripQuote(Tail(s)) ELSE s
RECURSIVE rstripQuote(_)
rstripQuote(s) ==
    IF s # <<>> /\ s[Len(s)] = Quote
    THEN rstripQuote(SubSeq(s, 1, Len(s) - 1)) ELSE s
stripQuote(s) == rstripQuote(lstripQuote(s))

\* The caller invokes etag(project_path, project_id, client).
CallEtag ==
    /\ pc = "idle"
    /\ op' = "etag"
    /\ UNCHANGED last
    /\ \E project_path \in EtagPaths, project_id \in ProjectIds,
          client \in Clients :
          args' = [project_path |-> project_path, project_id |-> project_id,
                   client |-> client]
    /\ store0' = store
    /\ pc' = "etag_get"
    /\ UNCHANGED <<store, result, err, lsVars, calls, via, responses, httpVars,
                   all_objects, dirs, stack, localVars>>

\* object = client.get(project_id, project_path); return object.etag.strip('"')
EtagGet ==
    /\ pc = "etag_get"
    /\ via' = Append(via, PendingClient)
    /\ calls' = Append(calls, PendingCall)
    /\ IF args.project_path \in store
       THEN /\ result' = Some(stripQuote(ETagOf(args.project_path)))
            /\ pc' = "done"
            /\ UNCHANGED <<err, failed>>
       ELSE /\ err' = Some("StoreError")
            /\ failed' = Append(failed, Len(calls) + 1)
            /\ pc' = Raised
            /\ UNCHANGED result
    /\ UNCHANGED <<store, op, last, args, lsVars, responses, httpVars, putVars,
                   fs, fs0, getArgs, getRet, paths_to_get, tmpdir>>

----------------------------------------------------------------------------
(* The download of _get_file.                                              *)

\* transfer.download writes the object to local_path; it fails when the
\* store holds no such object or the directory of local_path is missing.
DownloadSucceeds(keys, f, project_path, local_path) ==
    /\ project_path \in keys
    /\ ~ContainingDirMissing(f, local_path)

\* _get_file: transfer.download(client, project_id, project_path, local_path)
Download ==
    /\ pc = "download"
    /\ via' = Append(via, PendingClient)
    /\ calls' = Append(calls, PendingCall)
    /\ IF DownloadSucceeds(store, fs, getArgs.project_path, getArgs.local_path)
       THEN /\ fs' = [fs EXCEPT !.files = @ \cup {getArgs.local_path}]
            /\ pc' = getRet
            /\ UNCHANGED <<err, failed>>
       ELSE /\ err' = Some("StoreError")
            /\ failed' = Append(failed, Len(calls) + 1)
            /\ pc' = Raised
            /\ UNCHANGED fs
    /\ UNCHANGED <<store, op, last, args, result, lsVars, responses, httpVars,
                   putVars, fs0, getArgs, getRet, paths_to_get, tmpdir>>

----------------------------------------------------------------------------
(* open: a context manager.  Its body runs up to the yield when the        *)
(* context is entered; the caller's block runs at the yield; the finally   *)
(* clause runs when the context is left, whichever way.                    *)

TempRoot == <<"t">>                      \* temp_dir
TmpDir == <<"t", "/", ".", "k">>         \* what tempfile.mkdtemp(prefix=".", dir=temp_dir) makes

OpenCall(project_path, mode) == [project_path |-> project_path, mode |-> mode]

\* The calls of open the caller may make: reading modes, writing modes and
\* a mode io.open does not know, on files and on directories.
OpenArgs ==
    {OpenCall(KeyDX, <<"r">>), OpenCall(KeyDX, <<"r", "b">>),
     OpenCall(KeyDX, <<"w">>), OpenCall(KeyDX, <<"r", "z">>),
     OpenCall(KeyD, <<"r">>), OpenCall(KeyD, <<"w">>),
     OpenCall(PrefD, <<"r">>), OpenCall(PrefD, <<"a", "b">>),
     OpenCall(KeyDotH, <<"r">>), OpenCall(KeyDotH, <<"x">>)}

\* any(char in mode for char in ("w", "a", "x"))
WritesMode(mode) == \E i \in 1..Len(mode) : mode[i] \in {"w", "a", "x"}

\* io.open raises ValueError for a mode with a character it does not know.
ValidMode(mode) ==
    \A i \in 1..Len(mode) : mode[i] \in {"r", "w", "a", "x", "b", "t", "+"}

\* Mutant: a directory is not turned away.
OpenGuardNoDirectoryCheck(is_dir, mode) ==
    IF WritesMode(mode) THEN "NotImplementedError" ELSE "go"

\* The two tests open makes once _isdir has answered, in their order.
OpenGuard(is_dir, mode) ==
    IF is_dir THEN "DatasetsError"
    ELSE IF WritesMode(mode) THEN "NotImplementedError"
    ELSE "go"

\* local_path = os.path.join(tmpdir, os.path.basename(project_path))
OpenLocalPath(dir, project_path) == join(dir, basename(project_path))

\* os.rmdir raises OSError for a directory that is not empty.
RmdirFails(f, dir) ==
    \E p \in f.dirs \cup f.files : startswith(p, dir \o <<Slash>>)

\* Mutant: the finally clause removes the file and leaves the directory.
FinallyKeepsDirectory(f, local_path, dir) ==
    [f EXCEPT !.files = @ \ {local_path}]

\* The filesystem after the finally clause: the file removed if it is
\* there, then the directory if it is there (and empty).
Finally(f, local_path, dir) ==
    LET g == IF fsisfile(f, local_path)
             THEN [f EXCEPT !.files = @ \ {local_path}] ELSE f
    IN  IF fsisdir(g, dir) /\ ~RmdirFails(g, dir)
        THEN [g EXCEPT !.dirs = @ \ {dir}] ELSE g

\* The caller enters open(project_path, mode, temp_dir): the first
\* statement is _isdir(project_path), which lists the store.
CallOpen ==
    /\ pc = "idle"
    /\ op' = "open"
    /\ UNCHANGED last
    /\ \E a \in OpenArgs :
          /\ args' = a
          /\ lsArgs' = [prefix |-> IsdirPrefix(a.project_path),
                        show_hidden |-> TRUE,
                        client |-> None]
    /\ fs' = [dirs |-> {TempRoot}, files |-> {}]
    /\ fs0' = [dirs |-> {TempRoot}, files |-> {}]
    /\ store0' = store
    /\ lsRet' = "open_isdir"
    /\ pc' = "ls_first"
    /\ UNCHANGED <<store, result, err, pages, list_response, paths, lsOut,
                   calls, via, responses, httpVars, all_objects, dirs, stack,
                   getArgs, getRet, paths_to_get, tmpdir, failed>>

\* _isdir has answered: a directory and then a writing mode are turned
\* away; otherwise the temporary directory is made and get(project_path,
\* local_path) starts, with its own _isdir.
OpenIsdir ==
    /\ pc = "open_isdir"
    /\ IF OpenGuard(IsdirResult(lsOut), args.mode) # "go"
       THEN /\ err' = Some(OpenGuard(IsdirResult(lsOut), args.mode))
            /\ pc' = "done"
            /\ UNCHANGED <<fs, tmpdir, getArgs, getRet, lsArgs, lsRet>>
       ELSE /\ tmpdir' = Some(TmpDir)
            /\ fs' = makedirs(fs, TmpDir)
            /\ getArgs' = [project_path |-> args.project_path,
                           local_path |-> OpenLocalPath(TmpDir, args.project_path)]
            /\ getRet' = "open_io"
            /\ lsArgs' = [prefix |-> IsdirPrefix(args.project_path),
                          show_hidden |-> TRUE,
                          client |-> Some(ObjectClient)]
            /\ lsRet' = "get_isdir"
            /\ pc' = "ls_first"
            /\ UNCHANGED err
    /\ UNCHANGED <<store, op, last, args, result, pages, list_response, paths, lsOut,
                   calls, via, responses, httpVars, putVars, fs0, paths_to_get,
                   failed>>

\* with io.open(local_path, mode, **kwargs) as file_object: yield file_object
OpenIo ==
    /\ pc = "open_io"
    /\ IF ValidMode(args.mode) /\ fsisfile(fs, getArgs.local_path)
       THEN /\ result' = Some(getArgs.local_path)
            /\ pc' = "open_yield"
            /\ UNCHANGED err
       ELSE /\ err' = Some(IF ValidMode(args.mode) THEN "IOError" ELSE "ValueError")
            /\ pc' = Raised
            /\ UNCHANGED result
    /\ UNCHANGED <<store, op, last, args, lsVars, calls, via, responses, httpVars,
                   putVars, localVars>>

\* The caller's block runs and leaves the context, normally or by raising.
OpenBlock ==
    /\ pc = "open_yield"
    /\ \E raises \in BOOLEAN :
          err' = IF raises THEN Some("CallerError") ELSE None
    /\ pc' = "open_finally"
    /\ UNCHANGED <<store, op, last, args, result, lsVars, calls, via, responses, httpVars,
                   putVars, localVars>>

\* finally: os.remove(local_path) if it is a file, os.rmdir(tmpdir) if it
\* is a directory.
OpenFinally ==
    /\ pc = "open_finally"
    /\ fs' = Finally(fs, getArgs.local_path, Val(tmpdir))
    /\ err' = IF fsisdir(fs', Val(tmpdir)) /\ RmdirFails(fs', Val(tmpdir))
              THEN Some("OSError") ELSE err
    /\ pc' = "done"
    /\ UNCHANGED <<store, op, last, args, result, lsVars, calls, via, responses, httpVars,
                   putVars, fs0, getArgs, getRet, paths_to_get, tmpdir, failed>>

----------------------------------------------------------------------------
(* Failures.  A call on the store's client may raise instead of returning  *)
(* (the store answers with an error, the connection drops), and so may the *)
(* GET of list_runs.  A call that fails changes nothing in the store.      *)

\* Mutant: the failed call is tried again.
AfterFailureRetry(at) == at

\* No function of the module wraps a client call in a handler: the
\* exception leaves the operation from where it was raised.
AfterFailure(at) == Raised

\* client.list raises.
ListFails ==
    /\ pc \in {"ls_first", "ls_loop"}
    /\ pc = "ls_loop" => list_response.next_page_token # None
    /\ Len(calls) < MaxCalls
    /\ via' = Append(via, PendingClient)
    /\ calls' = Append(calls, ListCall(lsArgs.prefix,
                                       IF pc = "ls_first" THEN None
                                       ELSE FollowUpToken(list_response)))
    /\ failed' = Append(failed, Len(calls) + 1)
    /\ err' = Some("StoreError")
    /\ pc' = AfterFailure(pc)
    /\ UNCHANGED <<store, op, last, args, result, lsVars, responses, httpVars,
                   putVars, fs, fs0, getArgs, getRet, paths_to_get, tmpdir>>

\* What a download that fails may leave behind: nothing, or a part of the
\* file at local_path when the directory to write it in exists.
PartialDownloads(f, local_path) ==
    {f} \cup IF ContainingDirMissing(f, local_path) THEN {}
             ELSE {[f EXCEPT !.files = @ \cup {local_path}]}

\* client.copy, client.delete, client.get or transfer.download raises.
StoreCallFails ==
    /\ pc \in {"copy", "delete", "etag_get", "download"}
    /\ Len(calls) < MaxCalls
    /\ via' = Append(via, PendingClient)
    /\ calls' = Append(calls, PendingCall)
    /\ failed' = Append(failed, Len(calls) + 1)
    /\ err' = Some("StoreError")
    /\ pc' = AfterFailure(pc)
    /\ IF pc = "download"
       THEN \E f \in PartialDownloads(fs, getArgs.local_path) : fs' = f
       ELSE UNCHANGED fs
    /\ UNCHANGED <<store, op, last, args, result, lsVars, responses, httpVars,
                   putVars, fs0, getArgs, getRet, paths_to_get, tmpdir>>

\* client.create_directory or transfer.upload raises in a helper of put.
PutCallFails ==
    /\ \/ pc = "cpd_loop" /\ dirs # <<>> /\ MustCreate(Head(dirs), all_objects)
       \/ pc = "put_recursive" /\ stack # <<>>
    /\ Len(calls) < MaxCalls
    /\ via' = Append(via, PendingClient)
    /\ calls' = Append(calls,
          IF pc = "cpd_loop" THEN CreateDirectoryCall(Head(dirs))
          ELSE IF isdir(Head(stack).local_path)
               THEN CreateDirectoryCall(Head(stack).project_path)
               ELSE UploadCall(Head(stack).project_path, Head(stack).local_path))
    /\ failed' = Append(failed, Len(calls) + 1)
    /\ err' = Some("StoreError")
    /\ pc' = AfterFailure(pc)
    /\ UNCHANGED <<store, op, last, args, result, lsVars, responses, httpVars,
                   putVars, fs, fs0, getArgs, getRet, paths_to_get, tmpdir>>

\* self._get raises: the GET of list_runs got no usable answer.
TransportFails ==
    /\ pc = "get"
    /\ err' = Some("TransportError")
    /\ pc' = AfterFailure(pc)
    /\ UNCHANGED <<store, op, last, args, result, lsVars, calls, via, responses,
                   httpVars, putVars, localVars>>

\* list_runs does not touch the object store: it is run over the empty one.
CallListRunsOverEmptyStore ==
    /\ store = {}
    /\ CallListRuns

----------------------------------------------------------------------------
(* Between two operations, something other than this program changes the   *)
(* store.                                                                  *)

ExternalChange ==
    /\ pc = "idle"
    /\ \E keys \in Stores : keys # store /\ store' = keys
    /\ UNCHANGED <<pc, op, last, args, result, err, lsVars, calls, via,
                   responses, httpVars, putVars, localVars>>

----------------------------------------------------------------------------
(* The caller takes the result; the next operation starts afresh.  What    *)
(* _isdir answered is kept for the call after it.                          *)

Return ==
    /\ pc = "done"
    /\ pc' = "idle"
    /\ op' = "none"
    /\ args' = None
    /\ result' = None
    /\ err' = None
    /\ pages' = <<>>
    /\ list_response' = None
    /\ paths' = <<>>
    /\ lsArgs' = None
    /\ lsRet' = "done"
    /\ lsOut' = <<>>
    /\ calls' = <<>>
    /\ responses' = <<>>
    /\ gets' = <<>>
    /\ body' = None
    /\ store0' = {}
    /\ all_objects' = {}
    /\ dirs' = <<>>
    /\ stack' = <<>>
    /\ fs' = NoFilesystem
    /\ fs0' = NoFilesystem
    /\ getArgs' = None
    /\ getRet' = "done"
    /\ paths_to_get' = <<>>
    /\ tmpdir' = None
    /\ failed' = <<>>
    /\ via' = <<>>
    /\ last' = IF op = "_isdir" /\ err = None
               THEN Some([project_path |-> args.project_path,
                          result |-> Val(result)])
               ELSE None
    /\ UNCHANGED store

\* No operation is running.
Idle ==
    /\ pc = "idle"
    /\ op = "none"
    /\ args = None
    /\ result = None
    /\ err = None
    /\ pages = <<>>
    /\ list_response = None
    /\ paths = <<>>
    /\ lsArgs = None
    /\ lsRet = "done"
    /\ lsOut = <<>>
    /\ calls = <<>>
    /\ responses = <<>>
    /\ gets = <<>>
    /\ body = None
    /\ store0 = {}
    /\ all_objects = {}
    /\ dirs = <<>>
    /\ stack = <<>>
    /\ fs = NoFilesystem
    /\ fs0 = NoFilesystem
    /\ getArgs = None
    /\ getRet = "done"
    /\ paths_to_get = <<>>
    /\ tmpdir = None
    /\ failed = <<>>
    /\ via = <<>>
    /\ last = None

----------------------------------------------------------------------------
(* The datasets layer over any store.                                      *)

Init ==
    /\ store \in Stores
    /\ Idle

Next ==
    \/ CallLs
    \/ LsListFirst
    \/ LsListNext
    \/ LsReturn
    \/ CallGlob
    \/ GlobFilter
    \/ CallPut
    \/ CallCreateParentDirectories
    \/ CpdBegin
    \/ CpdStep
    \/ CpdReturn
    \/ CallPutRecursive
    \/ PutRecursiveStep
    \/ PutRecursiveReturn
    \/ CallGet
    \/ GetIsdir
    \/ GetListed
    \/ GetDirectoryStep
    \/ GetDirectoryReturn
    \/ Download
    \/ CallCp
    \/ CallRm
    \/ CallRmdir
    \/ CallMv
    \/ Copy
    \/ Delete
    \/ CallEtag
    \/ EtagGet
    \/ CallOpen
    \/ OpenIsdir
    \/ OpenIo
    \/ OpenBlock
    \/ OpenFinally
    \/ CallIsfile
    \/ IsfileIsdir
    \/ IsfileReturn
    \/ Return

Spec == Init /\ [][Next]_vars

----------------------------------------------------------------------------
(* The classification of paths over a store that changes between calls.    *)

NextClassify ==
    \/ CallIsdir
    \/ IsdirReturn
    \/ CallIsfile
    \/ IsfileIsdir
    \/ IsfileReturn
    \/ LsListFirst
    \/ LsListNext
    \/ LsReturn
    \/ ExternalChange
    \/ Return

SpecClassify == Init /\ [][NextClassify]_vars

----------------------------------------------------------------------------
(* The datasets layer and list_runs over a store and a transport that may  *)
(* fail.                                                                   *)

NextFailure ==
    \/ Next
    \/ ListFails
    \/ StoreCallFails
    \/ PutCallFails
    \/ CallListRunsOverEmptyStore
    \/ GetReturn
    \/ TransportFails

SpecFailure == Init /\ [][NextFailure]_vars

----------------------------------------------------------------------------
(* The experiment client and its schemas; the object store plays no part.  *)

InitExperiment ==
    /\ store = {}
    /\ Idle

NextExperiment ==
    \/ CallLoad
    \/ CallListRuns
    \/ GetReturn
    \/ Return

SpecExperiment == InitExperiment /\ [][NextExperiment]_vars

----------------------------------------------------------------------------
(* Properties of ls (checked under Spec).                                  *)

LsDone == pc = "done" /\ op = "ls"

\* A path is hidden when a "." stands first in it or right after a "/".
DotStartsSegment(path) ==
    \E i \in 1..Len(path) : path[i] = Dot /\ (i = 1 \/ path[i - 1] = Slash)

\* C1: ls(prefix, show_hidden=True) returns the object paths of every page of
\* the chain the store served, page after page and in the order within each
\* page, nothing dropped and nothing twice.
C1_LsReturnsEveryPageInOrder ==
    (LsDone /\ args.show_hidden) =>
        /\ err = None
        /\ result = Some(Flatten(pages))

C1_Witness ==
    /\ LsDone /\ args.show_hidden
    /\ Len(pages) = 3
    /\ \A i \in 1..3 : pages[i] # <<>>
    /\ Len(Val(result)) >= 4
    /\ \E i \in 1..Len(Val(result)) : DotStartsSegment(Val(result)[i])

\* C2: the drain of ls issues one list call per page: the first without a
\* token, each later one with the token of the response just before it, none
\* after a response without a token; when the first response has no token a
\* single call is made and the drained paths are that page's objects.
C2_OneListCallPerPage ==
    op = "ls" =>
        /\ Len(calls) = Len(responses)
        /\ \A i \in 1..Len(calls) :
              /\ calls[i] = ListCall(args.prefix,
                                     IF i = 1 THEN None
                                     ELSE responses[i - 1].next_page_token)
              /\ responses[i].objects = pages[i]
              /\ i < Len(calls) => responses[i].next_page_token # None
        /\ pc = "done" =>
              /\ Len(calls) = Len(pages)
              /\ responses[Len(responses)].next_page_token = None
              /\ responses[1].next_page_token = None =>
                    /\ Len(calls) = 1
                    /\ paths = responses[1].objects
                    /\ args.show_hidden => result = Some(responses[1].objects)

C2_Witness ==
    /\ LsDone
    /\ Len(calls) = 3
    /\ calls[3].token = responses[2].next_page_token
    /\ responses[2].objects # <<>>

\* C3: with show_hidden=False ls returns, in the listed order, the listed
\* paths in which no "/"-separated segment starts with "."; with
\* show_hidden=True it returns them all.  Segments of the prefix count.
C3_LsFiltersHiddenSegments ==
    LsDone =>
        result = Some(IF args.show_hidden THEN Flatten(pages)
                      ELSE SelectSeq(Flatten(pages),
                                     LAMBDA p : ~DotStartsSegment(p)))

C3_Witness ==
    /\ LsDone /\ ~args.show_hidden
    /\ args.prefix = PrefDotP
    /\ Flatten(pages) = <<KeyDotPX>>
    /\ result = Some(<<>>)

----------------------------------------------------------------------------
(* Properties of put and its helpers (checked under Spec).                 *)

CallsTo(fn) == {i \in 1..Len(calls) : calls[i].fn = fn}

\* The directories above a project path, root left out.
ParentDirectories(project_path) ==
    {project_parent_directories(project_path)[i] :
        i \in 1..Len(project_parent_directories(project_path))} \ {Root}

\* The calls that put `project_path` itself: its upload or its marker.
PutsTarget(i, project_path) ==
    /\ calls[i].fn \in {"upload", "create_directory"}
    /\ calls[i].path = project_path

\* Every parent directory whose marker the store lacked when the operation
\* began has had it created before the target was put; no marker the store
\* held is created again, and none is created for root.
ParentsMaterialised(project_path) ==
    /\ \A d \in ParentDirectories(project_path) :
          IF d \in store0
          THEN \A i \in CallsTo("create_directory") : calls[i].path # d
          ELSE \E i \in CallsTo("create_directory") :
                  /\ calls[i].path = d
                  /\ \A j \in 1..Len(calls) : PutsTarget(j, project_path) => i < j
    /\ \A i \in CallsTo("create_directory") : calls[i].path # Root

\* C9: put(local_path, project_path) creates, before it uploads or creates
\* project_path itself, the marker of every parent directory of project_path
\* the store lacks; markers the store holds are not created again, and root
\* never is.
C9_PutCreatesMissingParents ==
    (pc = "done" /\ op = "put") => ParentsMaterialised(args.project_path)

\* What _create_parent_directories does when it is reached: called on its
\* own it materialises the parents, with one drain of "/".
CpdMaterialisesParents ==
    (pc = "done" /\ op = "_create_parent_directories") =>
        /\ err = None
        /\ ParentsMaterialised(args.project_path)
        /\ ParentDirectories(args.project_path) \subseteq store
        /\ Cardinality({i \in CallsTo("list") : calls[i].token = None}) = 1

\* The markers created and the files uploaded by the calls so far.
MarkersCreated == {Marker(calls[i].path) : i \in CallsTo("create_directory")}
FilesUploaded == {calls[i].path : i \in CallsTo("upload")}
RootListings ==
    {i \in CallsTo("list") : calls[i].prefix = Root /\ calls[i].token = None}

\* C10: put of the local directory {x, s/y} to /d/ creates the markers /d/
\* and /d/s/, uploads exactly the two files, and lists root exactly once.
C10_PutDirectory ==
    (pc = "done" /\ op = "put" /\ args.local_path = LocalD
        /\ args.project_path = KeyD) =>
        /\ MarkersCreated = {KeyD, KeyDS}
        /\ Cardinality(CallsTo("create_directory")) = 2
        /\ FilesUploaded = {KeyDX, KeyDSY}
        /\ Cardinality(CallsTo("upload")) = 2
        /\ Cardinality(RootListings) = 1

\* What _put_recursive does when it is reached: called on its own with the
\* directory it creates the two markers and uploads the two files, each
\* file after the marker of its directory, and lists nothing.
PutRecursivePutsDirectory ==
    (pc = "done" /\ op = "_put_recursive" /\ args.local_path = LocalD
        /\ args.project_path = KeyD) =>
        /\ err = None
        /\ MarkersCreated = {KeyD, KeyDS}
        /\ Cardinality(CallsTo("create_directory")) = 2
        /\ FilesUploaded = {KeyDX, KeyDSY}
        /\ Cardinality(CallsTo("upload")) = 2
        /\ CallsTo("list") = {}
        /\ calls[1] = CreateDirectoryCall(KeyD)
        /\ {KeyD, KeyDS, KeyDX, KeyDSY} \subseteq store

----------------------------------------------------------------------------
(* Properties of list_runs and of the schemas (checked under               *)
(* SpecExperiment).                                                        *)

ListRunsCalled == op = "list_runs"
ListRunsDone == pc = "done" /\ op = "list_runs"

ParamsNamed(params, name) == SelectSeq(params, LAMBDA q : q[1] = name)

\* The parameter `name` of the request is the caller's value, if one was given.
Forwarded(params, name, x) ==
    ParamsNamed(params, name) = IF x = None THEN <<>> ELSE <<<<name, Val(x)>>>>

\* C4: list_runs with an explicitly empty list of experiment ids and no
\* lifecycle_stage returns no runs and the pagination (0, 0, null, null)
\* without any transport call, whatever start and limit are.
C4_EmptyIdListShortCircuits ==
    (ListRunsCalled /\ args.experiment_ids = Some(<<>>)
        /\ args.lifecycle_stage = None) =>
        /\ gets = <<>>
        /\ pc = "done"
        /\ err = None
        /\ result = Some([runs |-> <<>>,
                          pagination |-> [start |-> 0, size |-> 0,
                                          previous |-> None, next |-> None]])

C4_Witness ==
    /\ ListRunsDone
    /\ args.experiment_ids = Some(<<>>) /\ args.lifecycle_stage = None
    /\ args.start = Some(1) /\ args.limit = Some(0)
    /\ gets = <<>> /\ Val(result).runs = <<>>

\* C5: list_runs with a lifecycle_stage raises NotImplementedError at once,
\* with no transport call, whatever the other arguments are (an empty list
\* of experiment ids included).
C5_LifecycleStageRaises ==
    (ListRunsCalled /\ args.lifecycle_stage # None) =>
        /\ pc = "done"
        /\ err = Some("NotImplementedError")
        /\ result = None
        /\ gets = <<>>

C5_Witness ==
    /\ ListRunsDone
    /\ args.lifecycle_stage # None /\ args.experiment_ids = Some(<<>>)
    /\ err = Some("NotImplementedError")

\* C6 as stated: every list_runs that returns has issued exactly one GET
\* carrying start and limit as the caller gave them.
C6_Original ==
    (ListRunsDone /\ err = None) =>
        /\ Len(gets) = 1
        /\ Forwarded(gets[1].params, "start", args.start)
        /\ Forwarded(gets[1].params, "limit", args.limit)

\* C6, amended: when lifecycle_stage is null and experiment_ids is not an
\* explicitly empty list, list_runs issues exactly one GET, whose start and
\* limit parameters are the caller's values (0 as 0, none when omitted), and
\* returns what the schema decodes from the response, or its error.
C6_PassThrough ==
    (ListRunsCalled /\ args.lifecycle_stage = None
        /\ args.experiment_ids # Some(<<>>)) =>
        /\ Len(gets) = 1
        /\ gets[1].endpoint = "/project/{}/run"
        /\ Forwarded(gets[1].params, "start", args.start)
        /\ Forwarded(gets[1].params, "limit", args.limit)
        /\ Len(gets[1].params) =
              Len(ParamsNamed(gets[1].params, "experimentId"))
              + Len(ParamsNamed(gets[1].params, "start"))
              + Len(ParamsNamed(gets[1].params, "limit"))
        /\ pc = "done" =>
              LET decoded == LoadListExperimentRunsResponse(Val(body))
              IN  IF decoded.ok
                  THEN err = None /\ result = Some(decoded.value)
                  ELSE err = Some("ValidationError") /\ result = None

C6_Witness ==
    /\ ListRunsDone /\ err = None
    /\ args.start = Some(0) /\ args.limit = None
    /\ args.experiment_ids = Some(<<1, 2>>)
    /\ gets[1].params = <<<<"experimentId", 1>>, <<"experimentId", 2>>,
                          <<"start", 0>>>>
    /\ Val(result).pagination.next # None

LoadDone(schema) == pc = "done" /\ op = "load" /\ args.schema = schema

\* A Page body that holds both of its required keys.
PageComplete(b) == {"start", "limit"} \subseteq DOMAIN b

\* A Pagination body that holds every required key, at both levels.
PaginationComplete(b) ==
    /\ {"start", "size"} \subseteq DOMAIN b
    /\ \A k \in {"previous", "next"} \cap DOMAIN b : PageComplete(b[k])

\* C7: a pagination body that omits previous, next or both decodes to a
\* Pagination with null in that field (not a default Page), start and size
\* as in the body.
C7_OmittedPageIsNull ==
    (LoadDone("PaginationSchema") /\ PaginationComplete(Val(body))
        /\ {"previous", "next"} \ DOMAIN Val(body) # {}) =>
        /\ err = None
        /\ Val(result).start = Val(body).start
        /\ Val(result).size = Val(body).size
        /\ \A k \in {"previous", "next"} :
              LET field == IF k = "previous" THEN Val(result).previous
                           ELSE Val(result).next
              IN  IF k \in DOMAIN Val(body)
                  THEN field = Some([start |-> Val(body)[k].start,
                                     limit |-> Val(body)[k].limit])
                  ELSE field = None

C7_Witness ==
    /\ LoadDone("PaginationSchema") /\ err = None
    /\ DOMAIN Val(body) = {"start", "size", "previous"}
    /\ Val(body).size = 1
    /\ Val(result).next = None
    /\ Val(result).previous = Some([start |-> 0, limit |-> 1])

\* A list response body that holds every required pagination key.
ListComplete(b) ==
    /\ {"pagination", "runs"} \subseteq DOMAIN b
    /\ PaginationComplete(b.pagination)

LacksRequired(schema, b) ==
    CASE schema = "PageSchema" -> ~PageComplete(b)
      [] schema = "PaginationSchema" -> ~PaginationComplete(b)
      [] schema = "ListExperimentRunsResponseSchema" -> ~ListComplete(b)

\* C8: a body that lacks a required pagination field (start or size of a
\* Pagination, start or limit of a Page, pagination or runs of a list
\* response) is rejected with a schema error and no value; list_runs then
\* ends with that error after its single GET.
C8_MissingRequiredFieldFails ==
    /\ (pc = "done" /\ op = "load" /\ LacksRequired(args.schema, Val(body))) =>
            err = Some("ValidationError") /\ result = None
    /\ (ListRunsDone /\ body # None
            /\ LacksRequired("ListExperimentRunsResponseSchema", Val(body))) =>
            err = Some("ValidationError") /\ result = None /\ Len(gets) = 1

C8_Witness ==
    /\ ListRunsDone /\ body # None
    /\ DOMAIN Val(body) = {"pagination", "runs"}
    /\ DOMAIN Val(body).pagination = {"start", "size", "next"}
    /\ DOMAIN Val(body).pagination.next = {"start"}
    /\ err = Some("ValidationError") /\ Len(gets) = 1

----------------------------------------------------------------------------
(* Properties of get (checked under Spec).                                 *)

GetDone == pc = "done" /\ op = "get"

\* A project path classifies as a directory when some key of the store has
\* it, with its trailing "/", as a prefix.
AsDirectory(project_path) ==
    IF project_path[Len(project_path)] = Slash THEN project_path
    ELSE project_path \o <<Slash>>

ClassifiesAsDirectory(keys, project_path) ==
    \E k \in keys : startswith(k, AsDirectory(project_path))

\* The keys listed under a prefix, hidden ones included.
ListedUnder(keys, prefix) == {k \in keys : startswith(k, prefix)}

\* The parent directory of a local destination, whether or not the
\* destination is written with a trailing "/".
DestinationParent(local_path) ==
    LET name == Resolve(local_path)
    IN  IF rfind(name, Len(name)) = 0 THEN Cwd
        ELSE SubSeq(name, 1, rfind(name, Len(name)) - 1)

Downloads == {calls[i] : i \in CallsTo("download")}

\* C11: get of a project path that classifies as a directory, into a place
\* whose containing directory exists, returns without error having
\* downloaded every listed entry that is not a directory (hidden ones
\* included) to local_path joined with its relative path, and having made
\* a local directory for every listed entry that ends in "/".
C11_GetDirectoryFetchesEveryEntry ==
    (GetDone /\ ClassifiesAsDirectory(store, args.project_path)
        /\ ~ContainingDirMissing(fs0, args.local_path)) =>
        /\ err = None
        /\ \A k \in ListedUnder(store, args.project_path) :
              LET dest == LocalDest(args.local_path, args.project_path, k)
              IN  IF k[Len(k)] = Slash
                  THEN fsisdir(fs, dest)
                  ELSE /\ DownloadCall(k, dest) \in Downloads
                       /\ fsisfile(fs, dest)

\* What does hold: a get of a directory that lists nothing but directory
\* markers returns without error, the local directories made.
GetDirectoryOfMarkersOnly ==
    (GetDone /\ ClassifiesAsDirectory(store, args.project_path)
        /\ ~ContainingDirMissing(fs0, args.local_path)
        /\ \A k \in ListedUnder(store, args.project_path) : k[Len(k)] = Slash) =>
        /\ err = None
        /\ Downloads = {}
        /\ \A k \in ListedUnder(store, args.project_path) :
              fsisdir(fs, LocalDest(args.local_path, args.project_path, k))

\* C12: get of a project path that classifies as a directory, into a place
\* whose parent directory does not exist, ends with an IOError; up to then
\* nothing is downloaded, no local directory is made, and the only listing
\* is the one that classifies the path.
C12_GetDirectoryNeedsParent ==
    (op = "get" /\ ClassifiesAsDirectory(store, args.project_path)
        /\ DestinationParent(args.local_path) \notin fs0.dirs) =>
        /\ Downloads = {}
        /\ fs = fs0
        /\ \A i \in 1..Len(calls) :
              /\ calls[i].fn = "list"
              /\ calls[i].prefix = AsDirectory(args.project_path)
        /\ Cardinality({i \in CallsTo("list") : calls[i].token = None}) <= 1
        /\ pc \in {"ls_first", "ls_loop", "get_isdir", "done"}
        /\ pc = "done" => err = Some("IOError") /\ result = None

C12_Witness ==
    /\ GetDone
    /\ args.project_path = PrefD /\ args.local_path = LocalNO
    /\ fs0.dirs = {Cwd}
    /\ {KeyD, KeyDX} \subseteq store
    /\ err = Some("IOError")

\* C13: get of a project path that does not classify as a directory fails
\* with DatasetsError and downloads nothing when local_path ends in "/";
\* otherwise it issues exactly one download, of project_path to local_path.
C13_GetFile ==
    (GetDone /\ ~ClassifiesAsDirectory(store, args.project_path)) =>
        IF args.local_path[Len(args.local_path)] = Slash
        THEN /\ err = Some("DatasetsError")
             /\ CallsTo("download") = {}
             /\ fs = fs0
        ELSE /\ Cardinality(CallsTo("download")) = 1
             /\ Downloads = {[fn |-> "download", path |-> args.project_path,
                              local |-> args.local_path]}
             /\ err # Some("DatasetsError")

C13_Witness ==
    /\ GetDone
    /\ args.project_path = KeyDX /\ KeyDX \in store
    /\ args.local_path = LocalOSlash
    /\ err = Some("DatasetsError")

\* A file get that goes through: one download, the local file written.
C13_WitnessDownload ==
    /\ GetDone /\ err = None
    /\ args.project_path = KeyDotH /\ args.local_path = LocalO
    /\ fsisfile(fs, LocalO)

----------------------------------------------------------------------------
(* Properties of mv and rmdir.                                             *)

Failed == {failed[i] : i \in 1..Len(failed)}

\* Some object of the store lies at or under the path.
Present(keys, path) == \E k \in keys : startswith(k, path)

\* C14 (checked under SpecFailure): mv issues the copy of source to
\* destination first and the delete of source second, the delete only once
\* the copy has returned; when the copy fails no delete is issued and the
\* store is as it was; when the delete fails after the copy, source and
\* destination are both present and the error reaches the caller.
C14_MvCopiesThenDeletes ==
    op = "mv" =>
        /\ Len(calls) <= 2
        /\ Len(calls) >= 1 =>
              /\ calls[1].fn = "copy"
              /\ calls[1].path = args.source_path
              /\ calls[1].destination = args.destination_path
        /\ Len(calls) = 2 =>
              /\ calls[2].fn = "delete"
              /\ calls[2].path = args.source_path
              /\ 1 \notin Failed
              /\ Present(store, args.destination_path)
        /\ 1 \in Failed =>
              /\ Len(calls) = 1
              /\ pc = "done" /\ err # None
              /\ store = store0
        /\ 2 \in Failed =>
              /\ pc = "done" /\ err # None
              /\ store0 \subseteq store
              /\ Present(store, args.source_path)
              /\ Present(store, args.destination_path)
        /\ (pc = "done" /\ err = None) => Len(calls) = 2 /\ Failed = {}

C14_Witness ==
    /\ op = "mv" /\ pc = "done"
    /\ failed = <<2>>
    /\ args.source_path = KeyDX /\ args.destination_path = KeyDSY
    /\ {KeyDX, KeyDSY} \subseteq store /\ KeyDSY \notin store0
    /\ err = Some("StoreError")

\* A copy that failed: the source is still there and no delete was issued.
C14_WitnessCopyFailed ==
    /\ op = "mv" /\ pc = "done"
    /\ failed = <<1>> /\ Len(calls) = 1
    /\ args.source_path \in store

\* C15 (checked under Spec): rmdir(path) issues exactly one call on the
\* store, the delete of path with recursive set to True for the project
\* rm would use, and so does what rm(path, recursive=True) does: the
\* objects under path are gone, or the store reports that none is there.
C15_RmdirIsRecursiveRm ==
    (op \in {"rmdir", "rm"} /\ pc = "done"
        /\ (op = "rm" => args.recursive = "True")) =>
        /\ calls = <<[fn |-> "delete",
                     project |-> IF args.project_id = None THEN ContextProject
                                 ELSE Val(args.project_id),
                     path |-> args.project_path,
                     recursive |-> "True"]>>
        /\ IF Present(store0, args.project_path)
           THEN /\ err = None
                /\ store = {k \in store0 : ~startswith(k, args.project_path)}
           ELSE err = Some("StoreError") /\ store = store0

C15_Witness ==
    /\ op = "rmdir" /\ pc = "done" /\ err = None
    /\ args.project_path = KeyD /\ args.project_id = Some("p")
    /\ {KeyD, KeyDX, KeyDDotH} \subseteq store0
    /\ store \cap {KeyD, KeyDX, KeyDDotH} = {}

\* The same from rm: rm('/d/', recursive=True) leaves the same store.
C15_WitnessRm ==
    /\ op = "rm" /\ pc = "done" /\ err = None
    /\ args.project_path = KeyD /\ args.recursive = "True"
    /\ {KeyD, KeyDX, KeyDDotH} \subseteq store0
    /\ store \cap {KeyD, KeyDX, KeyDDotH} = {}

----------------------------------------------------------------------------
(* Properties of open.                                                     *)

OpenDone == pc = "done" /\ op = "open"

\* Nothing of the temporary directory is left on the filesystem.
TemporariesGone(f, dir) ==
    /\ dir \notin f.dirs
    /\ \A p \in f.dirs \cup f.files : ~startswith(p, dir)

\* C16 (checked under Spec): open of a project path that classifies as a
\* directory ends with DatasetsError; up to then nothing is downloaded and
\* neither a temporary directory nor a temporary file is made.
C16_OpenDirectoryFails ==
    (op = "open" /\ ClassifiesAsDirectory(store, args.project_path)) =>
        /\ Downloads = {}
        /\ tmpdir = None
        /\ fs = fs0
        /\ pc \in {"ls_first", "ls_loop", "open_isdir", "done"}
        /\ pc = "done" => err = Some("DatasetsError") /\ result = None

C16_Witness ==
    /\ OpenDone
    /\ args.project_path = PrefD /\ args.mode = <<"r">>
    /\ KeyDX \in store
    /\ err = Some("DatasetsError")

\* C17 (checked under SpecFailure): when open has ended after making its
\* temporary directory, whichever way it ended, neither the temporary file
\* nor the temporary directory exists.
C17_OpenLeavesNoTemporaries ==
    (OpenDone /\ tmpdir # None) =>
        /\ TemporariesGone(fs, Val(tmpdir))
        /\ fs = fs0

\* The caller's block raised.
C17_Witness ==
    /\ OpenDone /\ tmpdir # None
    /\ err = Some("CallerError")
    /\ Downloads # {}

\* The block ended normally; the download failed; the local open failed.
C17_WitnessNormal == OpenDone /\ tmpdir # None /\ err = None /\ result # None
C17_WitnessDownloadFailed ==
    /\ OpenDone /\ tmpdir # None
    /\ err = Some("StoreError")
    /\ Len(calls) \in Failed /\ calls[Len(calls)].fn = "download"
    /\ args.project_path \in store
C17_WitnessOpenFailed ==
    OpenDone /\ tmpdir # None /\ err = Some("ValueError") /\ Downloads # {}

\* While the context is open the temporary file is there.
C17_WitnessYield ==
    /\ op = "open" /\ pc = "open_yield"
    /\ fsisfile(fs, getArgs.local_path) /\ fsisdir(fs, Val(tmpdir))

\* C18 (checked under Spec): open with a mode that asks for write, append
\* or exclusive creation ends with NotImplementedError without any call on
\* the object store and without a temporary directory.
C18_WriteModeFailsBeforeNetwork ==
    (op = "open" /\ \E i \in 1..Len(args.mode) : args.mode[i] \in {"w", "a", "x"}) =>
        /\ CallsTo("list") = {}
        /\ Downloads = {}
        /\ tmpdir = None
        /\ pc = "done" => err = Some("NotImplementedError")

\* What does hold: a writing mode never gets as far as a temporary
\* directory or a download, but the store is listed first, and a
\* directory is answered with DatasetsError.
WriteModeFailsAfterListing ==
    (op = "open" /\ WritesMode(args.mode)) =>
        /\ Downloads = {}
        /\ tmpdir = None
        /\ fs = fs0
        /\ pc = "done" =>
              /\ CallsTo("list") # {}
              /\ err = Some(IF ClassifiesAsDirectory(store, args.project_path)
                            THEN "DatasetsError" ELSE "NotImplementedError")

----------------------------------------------------------------------------
(* Failures propagate (checked under SpecFailure).                         *)

\* C19: when a call on the object store fails inside an operation, that
\* call is the last one the operation issues: it is not issued again and
\* no other follows; control leaves the operation with the error (open
\* going through its finally clause) and without a result, so ls hands
\* back none of the paths it had drained.  When the GET of list_runs
\* fails, list_runs ends with the error, its single GET not repeated.
C19_FailuresPropagate ==
    /\ failed # <<>> =>
          /\ Len(failed) = 1
          /\ failed[1] = Len(calls)
          /\ err # None
          /\ result = None
          /\ pc \in {"done", "open_finally"}
          /\ pc = "open_finally" => op = "open"
    /\ err = Some("TransportError") =>
          /\ op = "list_runs" /\ pc = "done"
          /\ Len(gets) = 1
          /\ result = None

\* ls fails on its second page: the first page's paths are not returned.
C19_Witness ==
    /\ LsDone
    /\ failed = <<2>> /\ Len(calls) = 2
    /\ calls[2].token # None
    /\ paths # <<>>
    /\ result = None /\ err = Some("StoreError")

\* The other operations the claim names, each ended by a failed call.
C19_WitnessGet ==
    GetDone /\ failed = <<Len(calls)>> /\ calls[Len(calls)].fn = "download"
C19_WitnessGetListing ==
    /\ GetDone /\ failed = <<Len(calls)>>
    /\ calls[Len(calls)].fn = "list"
    /\ calls[Len(calls)].prefix = PrefD
C19_WitnessCp ==
    op = "cp" /\ pc = "done" /\ failed = <<1>> /\ args.source_path \in store
C19_WitnessRm ==
    op = "rm" /\ pc = "done" /\ failed = <<1>> /\ args.project_path \in store
C19_WitnessEtag ==
    op = "etag" /\ pc = "done" /\ failed = <<1>> /\ args.project_path \in store
C19_WitnessListRuns ==
    ListRunsDone /\ err = Some("TransportError") /\ Len(gets) = 1
C19_WitnessHelper ==
    /\ op = "_put_recursive" /\ pc = "done"
    /\ failed = <<2>> /\ calls[2].fn = "upload"

----------------------------------------------------------------------------
(* Properties of glob (checked under Spec).                                *)

GlobDone == pc = "done" /\ op = "glob"

\* What each pattern of the model means, said of the whole path.
MatchesPattern(pattern, path) ==
    CASE pattern = PatCsv -> endswith(path, <<".", "c", "s", "v">>)
      [] pattern = PatStar -> TRUE
      [] pattern = PatDQ -> Len(path) = 4 /\ startswith(path, KeyD)
      [] pattern = PatSet ->
            startswith(path, KeyDX) \/ startswith(path, <<"/", "d", "/", "s">>)
      [] pattern = PatNeg ->
            startswith(path, KeyD) /\ Len(path) >= 4 /\ path[4] # Dot
      [] pattern = PatStarX ->
            Len(path) >= 2 /\ path[1] = Slash /\ path[Len(path)] = "x"
      [] pattern = PatOpen -> path = PatOpen

\* The keys of the store under a prefix, in the store's order, the hidden
\* ones left out unless asked for.
Listing(keys, prefix, show_hidden) ==
    SelectSeq(KeyOrder,
              LAMBDA k : /\ k \in keys
                         /\ startswith(k, prefix)
                         /\ show_hidden \/ ~DotStartsSegment(k))

\* C20: glob(pattern, prefix, show_hidden) returns, in the listed order,
\* exactly the paths ls(prefix, show_hidden) returned whose whole path
\* matches the pattern, "*" running over "/" as over any character; with
\* "*.csv", "/data/" and the listing a.csv, b.txt, .hidden.csv, hidden
\* paths not shown, that is /data/a.csv alone.
C20_GlobFiltersFullPaths ==
    GlobDone =>
        /\ err = None
        /\ result = Some(SelectSeq(lsOut,
                            LAMBDA p : MatchesPattern(args.pattern, p)))
        /\ result = Some(SelectSeq(Listing(store, args.prefix, args.show_hidden),
                            LAMBDA p : MatchesPattern(args.pattern, p)))
        /\ (args.pattern = PatCsv /\ args.prefix = PrefData
                /\ ~args.show_hidden /\ store = DataListing) =>
              result = Some(<<KeyDataA>>)

C20_Witness ==
    /\ GlobDone
    /\ args.pattern = PatCsv /\ args.prefix = PrefData /\ ~args.show_hidden
    /\ store = DataListing
    /\ Len(calls) >= 2
    /\ result = Some(<<KeyDataA>>)

\* "*" runs over "/"; a set and its negation; an unclosed "[".
C20_WitnessStar ==
    /\ GlobDone /\ args.pattern = PatStarX /\ args.show_hidden
    /\ result = Some(<<KeyDX, KeyDotPX>>)
C20_WitnessSet ==
    /\ GlobDone /\ args.pattern = PatSet
    /\ result = Some(<<KeyDX, KeyDSY, KeyDS>>) /\ KeyDDotH \in store
C20_WitnessNeg ==
    /\ GlobDone /\ args.pattern = PatNeg
    /\ result = Some(<<KeyDX>>) /\ {KeyD, KeyDDotH} \subseteq store
C20_WitnessHidden ==
    /\ GlobDone /\ args.pattern = PatCsv /\ args.show_hidden
    /\ result = Some(<<KeyDataA, KeyDataH>>)

----------------------------------------------------------------------------
(* _isdir: the trailing "/" makes no difference, and every call asks the   *)
(* store anew.                                                             *)

IsdirDone == pc = "done" /\ op = "_isdir"

\* A path without the trailing "/" it may have been written with.
WithoutSlash(project_path) ==
    IF project_path # <<>> /\ project_path[Len(project_path)] = Slash
    THEN SubSeq(project_path, 1, Len(project_path) - 1)
    ELSE project_path

\* C21: for a path p without a trailing "/", _isdir(p) and _isdir(p + "/")
\* issue the same listing, of the prefix p + "/" with the hidden paths
\* included, and give the same answer: true exactly when some key of the
\* store has that prefix.  The answer is that of the store as it is at this
\* call, whatever it was at the call before.
C21_IsdirIgnoresTrailingSlash ==
    IsdirDone =>
        LET p == WithoutSlash(args.project_path)
        IN  /\ Len(calls) >= 1
            /\ \A i \in 1..Len(calls) :
                  /\ calls[i].fn = "list"
                  /\ calls[i].prefix = p \o <<Slash>>
            /\ Len(SelectSeq(calls, LAMBDA c : c.token = None)) = 1
            /\ lsArgs.show_hidden
            /\ result = Some(\E k \in store : startswith(k, p \o <<Slash>>))

\* /d is a directory by a hidden key alone.
C21_Witness ==
    /\ IsdirDone
    /\ args.project_path = PrefD
    /\ store = {KeyDDotH}
    /\ result = Some(TRUE)

\* The same question with the trailing "/", right after the one without.
C21_WitnessSlash ==
    /\ IsdirDone
    /\ args.project_path = KeyD
    /\ last = Some([project_path |-> PrefD, result |-> TRUE])
    /\ result = Some(TRUE)

\* The store changed between two calls about the same path, and the second
\* answer differs from the first.
C21_WitnessChanged ==
    /\ IsdirDone
    /\ last # None
    /\ Val(last).project_path = args.project_path
    /\ Some(Val(last).result) # result

\* /d is no directory in a store whose keys start with /data/.
C21_WitnessNotPrefix ==
    /\ IsdirDone
    /\ args.project_path = PrefD
    /\ store = DataListing
    /\ result = Some(FALSE)

----------------------------------------------------------------------------
(* _isfile: a file is not a directory.                                     *)

IsfileDone == pc = "done" /\ op = "_isfile"

\* The normalized path is among the keys listed under the path as given.
ExactMatch(keys, project_path) ==
    rationalise_projectpath(project_path) \in ListedUnder(keys, project_path)

\* C22: _isfile(p) is true exactly when p is not a directory and the
\* listing of the prefix p, hidden paths included, holds the normalized p.
\* So no path is both a file and a directory, and a path that matches
\* neither test is neither.
C22_IsfileExcludesDirectory ==
    IsfileDone =>
        LET p == args.project_path
            isDirectory == ClassifiesAsDirectory(store, p)
            isFile == Val(result)
        IN  /\ result # None
            /\ isFile <=> (~isDirectory /\ ExactMatch(store, p))
            /\ ~(isFile /\ isDirectory)
            /\ (~isDirectory /\ ~ExactMatch(store, p)) => ~isFile

\* /d/x is a file.
C22_Witness ==
    /\ IsfileDone
    /\ args.project_path = KeyDX
    /\ KeyDX \in store
    /\ result = Some(TRUE)

\* /d/ is listed under its own name and is a directory, not a file.
C22_WitnessDirectory ==
    /\ IsfileDone
    /\ args.project_path = KeyD
    /\ store = {KeyD}
    /\ result = Some(FALSE)

\* /d is absent from a store whose keys start with /data/.
C22_WitnessAbsent ==
    /\ IsfileDone
    /\ args.project_path = PrefD
    /\ store = DataListing
    /\ result = Some(FALSE)

\* d/x, written without its leading "/", lists nothing.
C22_WitnessRelative ==
    /\ IsfileDone
    /\ args.project_path = RelDX
    /\ KeyDX \in store
    /\ result = Some(FALSE)

----------------------------------------------------------------------------
(* mv against cp followed by rm.                                           *)

MvDone == pc = "done" /\ op = "mv" /\ err = None

\* The calls of cp(source, destination) followed by rm(source), neither
\* given a recursive flag.
CpThenRm(project, source, destination) ==
    <<CopyCall(project, source, destination, "None"),
      DeleteCall(project, source, "None")>>

\* C23: mv(source, destination) issues the calls of cp(source, destination)
\* followed by rm(source) with their default flags, so that it copies and
\* deletes the source key alone, never the keys under it.
C23_MvIsCpThenRm ==
    MvDone =>
        /\ calls = CpThenRm(ProjectOf(args.project_id), args.source_path,
                            args.destination_path)
        /\ store0 \ store \subseteq {args.source_path}
        /\ store \ store0 \subseteq {args.destination_path}

\* What mv does instead: both calls carry its client as the recursive flag.
MvPassesClientAsRecursive ==
    MvDone =>
        /\ Len(calls) = 2
        /\ calls[1] = CopyCall(ProjectOf(args.project_id), args.source_path,
                               args.destination_path, "ObjectClient")
        /\ calls[2] = DeleteCall(ProjectOf(args.project_id), args.source_path,
                                 "ObjectClient")

\* mv of /.p/ has moved the key under it.
MvMovedKeysUnderSource ==
    /\ MvDone
    /\ args.source_path = PrefDotP
    /\ KeyDotPX \in store0
    /\ KeyDotPX \notin store

----------------------------------------------------------------------------
(* The client parameter.                                                   *)

\* The operations that take a client from their caller.
ClientOps == {"cp", "rm", "rmdir", "mv", "etag", "_isfile"}

\* A finished call of operation o that was handed a client.
DoneWithClient(o) == pc = "done" /\ op = o /\ args.client # None

\* C24: when the caller hands a client to cp, rm, rmdir, mv, etag or
\* _isfile, every call the operation makes on the object store goes through
\* that client.
C24_SuppliedClientIsUsed ==
    \A o \in ClientOps :
        DoneWithClient(o) =>
            \A i \in 1..Len(via) : via[i] = Val(args.client)

\* Operation o was handed a client and made a call through another one.
UsesAnotherClient(o) ==
    /\ DoneWithClient(o)
    /\ \E i \in 1..Len(via) : via[i] # Val(args.client)

\* What the code does: cp, rm, rmdir, mv and etag make every call through
\* a client of their own; _isfile makes the calls of its directory test
\* through a client of ls's own, and the others through the one handed in.
SuppliedClientIsReplaced ==
    /\ \A o \in {"cp", "rm", "rmdir", "mv", "etag"} :
          DoneWithClient(o) =>
              /\ Len(via) = Len(calls)
              /\ \A i \in 1..Len(via) : via[i] = ObjectClient
    /\ DoneWithClient("_isfile") =>
           /\ Len(via) = Len(calls)
           /\ via[1] = ObjectClient
           /\ \A i \in 1..Len(via) :
                 via[i] = IF Len(SelectSeq(SubSeq(calls, 1, i),
                                           LAMBDA c : c.token = None)) = 1
                          THEN ObjectClient ELSE Supplied

\* _isdir, called on its own, makes every call through the client handed in.
IsdirUsesSuppliedClient ==
    DoneWithClient("_isdir") =>
        /\ Len(via) = Len(calls)
        /\ \A i \in 1..Len(via) : via[i] = Supplied
====
